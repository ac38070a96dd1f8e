---------------------------- MODULE SystemProofs ----------------------------
(***************************************************************************)
(* Modules Kernel and System, proved for any number of PCBs, gettys and    *)
(* message nodes.                                                          *)
(*                                                                         *)
(* First module Kernel.  The lists: a PCB is in exactly one of them.  The  *)
(* boxes: the semaphores agree with the queues, nobody sleeps on a message *)
(* that is there, and a receive() that has begun ends.                     *)
(*                                                                         *)
(* Then the requests and answers of module System.                         *)
(* A request is in exactly one place at a time: in the box of the server,  *)
(* in the server's hands, kept by it for later, on its way back, or in the *)
(* box of the thread that made it; and as long as it is anywhere, that     *)
(* thread is in receive() from that server and can have made no other      *)
(* request.  The invariant follows a request through these places (Pair).  *)
(* It needs the programs of the threads to be well formed (Prog), the      *)
(* servers to call each other without a cycle (CanCall), and one CPU       *)
(* (RunsAlone): a thread is not interrupted between its send() and the     *)
(* first P() of its receive().                                             *)
(*                                                                         *)
(* With it the last part (TurnInv) shows that no box overflows, so that    *)
(* the kernel stops only when it has no PCB left for a new process.        *)
(***************************************************************************)
EXTENDS System, ListsProofs

Nodes == Threads \cup {Idle}

\* The ready ring r, the wait list w and the running context c.
RingOK(r, w, c) ==
  /\ r \in Seq(Nodes) /\ w \in SUBSET Threads /\ c \in Nodes
  /\ Len(r) > 0 /\ r[1] = Idle /\ Distinct(r) /\ On(r, c)
  /\ \A t \in w : ~On(r, t)

\* The free list f and the PCBs h in the hands of the process manager.
FreeOK(f, h) ==
  /\ f \in Seq(Threads) /\ h \in SUBSET Threads
  /\ Distinct(f)
  /\ \A t \in h : ~On(f, t)

\* The two pairs of lists share the PCBs out between them.
Apart(r, w, f, h) ==
  \A t \in Threads : (On(r, t) \/ t \in w) <=> ~(On(f, t) \/ t \in h)

ListsOK == RingOK(ring, wait, current) /\ FreeOK(free, held) /\ Apart(ring, wait, free, held)

\* The part of the type invariant that is not about lists.
BoxType ==
  /\ isr \in BOOLEAN /\ halted \in BOOLEAN /\ user \in SUBSET Threads
  /\ pc \in [Threads -> Points] /\ from \in [Threads -> Sems]
  /\ token \in [Threads -> [Sems -> Int]]
  /\ block \in [Threads -> [Sems -> Seq(Threads)]]
  /\ queue \in [Threads -> Seq(Msgs)]

LInv == ListsOK /\ BoxType

(* The parts say the same as the invariants of module Kernel. *)
LEMMA LInvIsInvariant == LInv <=> TypeOK /\ PcbInOneList
<1>1. LInv => TypeOK
  BY DEF LInv, ListsOK, RingOK, FreeOK, BoxType, TypeOK, Nodes
<1>2. LInv => PcbInOneList
  BY DEF LInv, ListsOK, RingOK, FreeOK, Apart, PcbInOneList, InRing, InFree
<1>3. TypeOK /\ PcbInOneList => BoxType
  BY DEF BoxType, TypeOK
<1>4. TypeOK /\ PcbInOneList => ListsOK
  <2>1. TypeOK /\ PcbInOneList => RingOK(ring, wait, current)
    BY DEF TypeOK, PcbInOneList, RingOK, Nodes, InRing, InFree
  <2>2. TypeOK /\ PcbInOneList => FreeOK(free, held)
    BY DEF TypeOK, PcbInOneList, FreeOK, InFree
  <2>3. TypeOK /\ PcbInOneList => Apart(ring, wait, free, held)
    BY DEF PcbInOneList, Apart, InRing, InFree
  <2> QED
    BY <2>1, <2>2, <2>3 DEF ListsOK
<1> QED
  BY <1>1, <1>2, <1>3, <1>4 DEF LInv
-----------------------------------------------------------------------------
(* The scheduler's operations on the lists. *)

(* schedule() picks a node of the ring. *)
LEMMA ScheduleOn ==
  ASSUME NEW r \in Seq(Nodes), Len(r) > 0, r[1] = Idle, NEW x, On(r, x)
  PROVE  Schedule(r, x) \in Nodes /\ On(r, Schedule(r, x))
<1>1. On(r, Idle)
  BY DEF On
<1>2. On(r, NextOf(r, x)) /\ NextOf(r, x) \in Nodes
  BY NextOfProperties
<1>3. On(r, NextOf(r, Idle)) /\ NextOf(r, Idle) \in Nodes
  BY <1>1, NextOfProperties
<1> QED
  BY <1>2, <1>3 DEF Schedule

(* wakeup(p) moves p from the wait list to the ring, or does nothing. *)
LEMMA WakeupInProperties ==
  ASSUME NEW r, NEW w, RingOK(r, w, current), NEW p \in Threads,
         NEW st, st = WakeupIn([ring |-> r, wait |-> w], p)
  PROVE  /\ RingOK(st.ring, st.wait, current)
         /\ st = [ring |-> st.ring, wait |-> st.wait]
         /\ st.wait = w \ {p}
         /\ \A y : On(st.ring, y) <=> On(r, y) \/ (y = p /\ p \in w)
<1>1. CASE p \in w
  <2>1. st = [ring |-> AddBefore(r, current, p), wait |-> w \ {p}]
    BY <1>1 DEF WakeupIn
  <2>2. /\ r \in Seq(Nodes) /\ On(r, current) /\ p \in Nodes /\ ~On(r, p) /\ Distinct(r)
        /\ r[1] = Idle
    BY <1>1 DEF RingOK, Nodes
  <2>3. /\ AddBefore(r, current, p) \in Seq(Nodes)
        /\ Len(AddBefore(r, current, p)) > 0
        /\ AddBefore(r, current, p)[1] = r[1]
        /\ Distinct(AddBefore(r, current, p))
        /\ \A y : On(AddBefore(r, current, p), y) <=> On(r, y) \/ y = p
    BY <2>2, AddBeforeProperties
  <2> QED
    BY <1>1, <2>1, <2>2, <2>3 DEF RingOK
<1>2. CASE p \notin w
  <2>1. st = [ring |-> r, wait |-> w]
    BY <1>2 DEF WakeupIn
  <2> QED
    BY <1>2, <2>1 DEF RingOK
<1> QED
  BY <1>1, <1>2

(* The running thread leaves the ring and another context of it runs. *)
LEMMA LeaveRing ==
  ASSUME NEW r, r = Without(ring, current),
         NEW c, c = Schedule(r, PrevOf(ring, current)),
         RingOK(ring, wait, current), current # Idle
  PROVE  /\ RingOK(r, wait, c) /\ current \in Threads
         /\ \A y : On(r, y) <=> On(ring, y) /\ y # current
<1>1. /\ ring \in Seq(Nodes) /\ Len(ring) > 0 /\ ring[1] = Idle /\ Distinct(ring)
      /\ On(ring, current) /\ ring[1] # current
  BY DEF RingOK
<1>2. On(ring, PrevOf(ring, current)) /\ PrevOf(ring, current) # current
  BY <1>1, PrevOfProperties
<1>3. /\ r \in Seq(Nodes) /\ Distinct(r)
      /\ \A y : On(r, y) <=> On(ring, y) /\ y # current
      /\ Len(r) > 0 /\ r[1] = Idle
  BY <1>1, WithoutProperties
<1>4. On(r, PrevOf(ring, current))
  BY <1>2, <1>3
<1>5. c \in Nodes /\ On(r, c)
  BY <1>3, <1>4, ScheduleOn
<1> QED
  BY <1>3, <1>5 DEF RingOK, Nodes

(* sleep() *)
LEMMA SleepLists ==
  ASSUME ListsOK, current # Idle, Sleep
  PROVE  /\ ListsOK' /\ current \in Threads
         /\ wait' = wait \cup {current}
         /\ \A y : On(ring', y) <=> On(ring, y) /\ y # current
<1>1. RingOK(ring, wait, current) /\ FreeOK(free, held) /\ Apart(ring, wait, free, held)
  BY DEF ListsOK
<1>2. /\ ring' = Without(ring, current) /\ current' = Schedule(ring', PrevOf(ring, current))
      /\ wait' = wait \cup {current} /\ free' = free /\ held' = held
  BY DEF Sleep
<1>3. /\ RingOK(ring', wait, current') /\ current \in Threads
      /\ \A y : On(ring', y) <=> On(ring, y) /\ y # current
  BY <1>1, <1>2, LeaveRing
<1>4. RingOK(ring', wait', current')
  BY <1>2, <1>3 DEF RingOK
<1>5. Apart(ring', wait', free', held')
  <2>1. On(ring, current)
    BY <1>1 DEF RingOK
  <2> QED
    BY <1>1, <1>2, <1>3, <2>1 DEF Apart
<1> QED
  BY <1>1, <1>2, <1>3, <1>4, <1>5 DEF ListsOK

(* The tail of irq_handle(). *)
LEMMA RescheduleLists ==
  ASSUME ListsOK, Reschedule
  PROVE  ListsOK' /\ ring' = ring /\ wait' = wait
<1>1. /\ ring \in Seq(Nodes) /\ Len(ring) > 0 /\ ring[1] = Idle /\ On(ring, current)
  BY DEF ListsOK, RingOK
<1>2. current' = Schedule(ring, current) /\ UNCHANGED <<ring, wait, free, held>>
  BY DEF Reschedule
<1>3. current' \in Nodes /\ On(ring, current')
  BY <1>1, <1>2, ScheduleOn
<1> QED
  BY <1>2, <1>3 DEF ListsOK, RingOK

(* wakeup() of any thread, by the running context. *)
LEMMA WakeupLists ==
  ASSUME ListsOK, NEW st, WakeupAll(st), RingOK(st.ring, st.wait, current),
         \A t \in Threads : (On(st.ring, t) \/ t \in st.wait) <=> (On(ring, t) \/ t \in wait)
  PROVE  ListsOK'
<1>1. ring' = st.ring /\ wait' = st.wait /\ free' = free /\ held' = held /\ current' = current
  BY DEF WakeupAll
<1>2. RingOK(ring', wait', current')
  BY <1>1
<1>3. Apart(ring', wait', free', held')
  BY <1>1 DEF ListsOK, Apart
<1> QED
  BY <1>1, <1>2, <1>3 DEF ListsOK

(* wakeup(t), outside V(). *)
LEMMA WakeupOneLists ==
  ASSUME ListsOK, NEW t \in Threads,
         WakeupAll(WakeupIn([ring |-> ring, wait |-> wait], t))
  PROVE  /\ ListsOK' /\ wait' = wait \ {t}
         /\ \A y : On(ring', y) <=> On(ring, y) \/ (y = t /\ t \in wait)
<1> DEFINE st == WakeupIn([ring |-> ring, wait |-> wait], t)
<1>1. RingOK(ring, wait, current)
  BY DEF ListsOK
<1>2. /\ RingOK(st.ring, st.wait, current)
      /\ st.wait = wait \ {t}
      /\ \A y : On(st.ring, y) <=> On(ring, y) \/ (y = t /\ t \in wait)
  BY <1>1, WakeupInProperties
<1>3. ring' = st.ring /\ wait' = st.wait
  BY DEF WakeupAll
<1>4. WakeupAll(st)
  OBVIOUS
<1> HIDE DEF st
<1>5. ListsOK'
  BY <1>2, <1>4, WakeupLists
<1> QED
  BY <1>2, <1>3, <1>5

(* The wakeup in V(), whoever is first in the blocking queue. *)
LEMMA VWakesLists ==
  ASSUME BoxType, NEW r, NEW w, RingOK(r, w, current),
         NEW t \in Threads, NEW s \in Sems, VAsserts(t, s),
         NEW st, st = VWakes([ring |-> r, wait |-> w], t, s)
  PROVE  /\ RingOK(st.ring, st.wait, current)
         /\ st = [ring |-> st.ring, wait |-> st.wait]
         /\ \A u : (On(st.ring, u) \/ u \in st.wait) <=> (On(r, u) \/ u \in w)
<1>1. CASE token[t][s] < 0
  <2> DEFINE h == Head(block[t][s])
  <2>1. block[t][s] \in Seq(Threads) /\ block[t][s] # <<>>
    BY <1>1 DEF BoxType, VAsserts
  <2>2. h \in Threads
    BY <2>1, HeadTailProperties
  <2>3. st = WakeupIn([ring |-> r, wait |-> w], h)
    BY <1>1 DEF VWakes
  <2> HIDE DEF h
  <2>4. /\ RingOK(st.ring, st.wait, current)
        /\ st = [ring |-> st.ring, wait |-> st.wait]
        /\ st.wait = w \ {h}
        /\ \A y : On(st.ring, y) <=> On(r, y) \/ (y = h /\ h \in w)
    BY <2>2, <2>3, WakeupInProperties
  <2> QED
    BY <2>4
<1>2. CASE ~(token[t][s] < 0)
  <2>1. st = [ring |-> r, wait |-> w]
    BY <1>2 DEF VWakes
  <2> QED
    BY <2>1
<1> QED
  BY <1>1, <1>2

(* A send() that is not an overrun keeps the lists. *)
LEMMA SendLists ==
  ASSUME ListsOK, BoxType, NEW src \in Sources, NEW dest \in Threads,
         VAsserts(dest, ANY), VAsserts(dest, src),
         WakeupAll(VWakes(VWakes([ring |-> ring, wait |-> wait], dest, ANY), dest, src))
  PROVE  ListsOK'
<1> DEFINE one == VWakes([ring |-> ring, wait |-> wait], dest, ANY)
           two == VWakes([ring |-> one.ring, wait |-> one.wait], dest, src)
<1>1. RingOK(ring, wait, current) /\ ANY \in Sems /\ src \in Sems
  BY DEF ListsOK, Sems
<1>2. /\ RingOK(one.ring, one.wait, current)
      /\ one = [ring |-> one.ring, wait |-> one.wait]
      /\ \A u : (On(one.ring, u) \/ u \in one.wait) <=> (On(ring, u) \/ u \in wait)
  BY <1>1, VWakesLists
<1>3. WakeupAll(two)
  BY <1>2
<1> HIDE DEF one
<1>4. /\ RingOK(two.ring, two.wait, current)
      /\ \A u : (On(two.ring, u) \/ u \in two.wait) <=> (On(one.ring, u) \/ u \in one.wait)
  BY <1>1, <1>2, VWakesLists
<1> HIDE DEF two
<1> QED
  BY <1>2, <1>3, <1>4, WakeupLists
-----------------------------------------------------------------------------
(* receive() finds the first message of the source it was asked for. *)
LEMMA FoundProperties ==
  ASSUME NEW q \in Seq(Msgs), q # <<>>, NEW src \in Sems
  PROVE  /\ Found(q, src) \in 1..Len(q)
         /\ src = ANY => Found(q, src) = 1
         /\ src # ANY /\ (\E i \in 1..Len(q) : q[i].src = src) =>
              /\ q[Found(q, src)].src = src
              /\ \A j \in 1..(Found(q, src) - 1) : q[j].src # src
<1> DEFINE Hit(i) == /\ q[i].src = src \/ (i = Len(q) /\ \A j \in 1..Len(q) : q[j].src # src)
                     /\ \A j \in 1..(i - 1) : q[j].src # src
           T == {i \in 1..Len(q) : q[i].src = src}
<1>0. Len(q) \in Nat /\ Len(q) > 0
  OBVIOUS
<1>1. CASE src = ANY
  BY <1>0, <1>1 DEF Found
<1>2. CASE src # ANY /\ T # {}
  <2>1. PICK n \in T : \A m \in T : n <= m
    <3>1. T \in SUBSET Nat
      BY <1>0
    <3> QED
      BY <1>2, <3>1, LeastElement
  <2>2. n \in 1..Len(q) /\ Hit(n)
    BY <1>0, <2>1
  <2>3. Found(q, src) = CHOOSE i \in 1..Len(q) : Hit(i)
    BY <1>2 DEF Found
  <2>4. Found(q, src) \in 1..Len(q) /\ Hit(Found(q, src))
    BY <2>2, <2>3
  <2>5. ~\A j \in 1..Len(q) : q[j].src # src
    BY <1>2
  <2> QED
    BY <1>2, <2>4, <2>5
<1>3. CASE src # ANY /\ T = {}
  <2>1. \A j \in 1..Len(q) : q[j].src # src
    BY <1>3
  <2>2. Len(q) \in 1..Len(q) /\ Hit(Len(q))
    BY <1>0, <2>1
  <2>3. Found(q, src) = CHOOSE i \in 1..Len(q) : Hit(i)
    BY <1>3 DEF Found
  <2>4. Found(q, src) \in 1..Len(q)
    BY <2>2, <2>3
  <2> QED
    BY <1>3, <2>1, <2>4
<1> QED
  BY <1>1, <1>2, <1>3
-----------------------------------------------------------------------------
(* The lists and the types. *)

(* P() keeps both, whether the thread sleeps or not. *)
LEMMA PKeeps ==
  ASSUME LInv, Running, NEW s \in Sems, NEW n \in Points, P(s, n), from' \in [Threads -> Sems]
  PROVE  LInv'
<1>1. current # Idle /\ current \in Threads
  BY DEF LInv, ListsOK, RingOK, Nodes, Running
<1>2. ListsOK'
  <2>1. CASE token[current][s] > 0
    BY <2>1 DEF P, lists, LInv, ListsOK
  <2>2. CASE ~(token[current][s] > 0)
    <3>1. Sleep
      BY <2>2 DEF P
    <3> QED
      BY <1>1, <3>1, SleepLists DEF LInv
  <2> QED
    BY <2>1, <2>2
<1>3. token' \in [Threads -> [Sems -> Int]] /\ pc' \in [Threads -> Points]
  BY <1>1 DEF P, LInv, BoxType
<1>4. block' \in [Threads -> [Sems -> Seq(Threads)]]
  <2>1. CASE token[current][s] > 0
    BY <2>1 DEF P, LInv, BoxType
  <2>2. CASE ~(token[current][s] > 0)
    <3>1. block' = [block EXCEPT ![current][s] = Append(@, current)]
      BY <2>2 DEF P
    <3>2. Append(block[current][s], current) \in Seq(Threads)
      BY <1>1 DEF LInv, BoxType
    <3> QED
      BY <1>1, <3>1, <3>2 DEF LInv, BoxType
  <2> QED
    BY <2>1, <2>2
<1> QED
  BY <1>2, <1>3, <1>4 DEF P, LInv, BoxType

(* init_msg() makes an empty box of the right type. *)
LEMMA InitMsgType ==
  ASSUME BoxType, NEW t \in Threads, InitMsg(t)
  PROVE  /\ token' \in [Threads -> [Sems -> Int]]
         /\ block' \in [Threads -> [Sems -> Seq(Threads)]]
         /\ queue' \in [Threads -> Seq(Msgs)]
BY DEF BoxType, InitMsg

(* send() keeps both. *)
LEMMA SendKeeps ==
  ASSUME LInv, NEW src \in Sources, NEW dest \in Threads, NEW body \in Body,
         Send(src, dest, body)
  PROVE  LInv'
<1>1. CASE FreeSlots(dest) = 0 \/ ~VAsserts(dest, ANY) \/ ~VAsserts(dest, src)
  BY <1>1 DEF Send, Halt, lists, boxes, LInv, ListsOK, BoxType
<1>2. CASE ~(FreeSlots(dest) = 0 \/ ~VAsserts(dest, ANY) \/ ~VAsserts(dest, src))
  <2>1. VAsserts(dest, ANY) /\ VAsserts(dest, src) /\ ANY \in Sems /\ src \in Sems
    BY <1>2 DEF Sems
  <2>2. /\ queue' = [queue EXCEPT ![dest] = Append(@, [src |-> src, body |-> body])]
        /\ token' = [token EXCEPT ![dest][ANY] = @ + 1, ![dest][src] = @ + 1]
        /\ block' = [block EXCEPT ![dest][ANY] = VBlock(dest, ANY),
                                  ![dest][src] = VBlock(dest, src)]
        /\ WakeupAll(VWakes(VWakes([ring |-> ring, wait |-> wait], dest, ANY), dest, src))
        /\ UNCHANGED <<isr, user, pc, from, halted>>
    BY <1>2 DEF Send
  <2>3. ListsOK'
    BY <2>1, <2>2, SendLists DEF LInv
  <2>4. [src |-> src, body |-> body] \in Msgs
    BY DEF Msgs
  <2>5. queue' \in [Threads -> Seq(Msgs)]
    BY <2>2, <2>4 DEF LInv, BoxType
  <2>6. token' \in [Threads -> [Sems -> Int]]
    BY <2>1, <2>2 DEF LInv, BoxType
  <2>7. \A s \in Sems : VAsserts(dest, s) => VBlock(dest, s) \in Seq(Threads)
    <3> SUFFICES ASSUME NEW s \in Sems, VAsserts(dest, s)
                 PROVE  VBlock(dest, s) \in Seq(Threads)
      OBVIOUS
    <3>1. block[dest][s] \in Seq(Threads)
      BY DEF LInv, BoxType
    <3> QED
      BY <3>1, HeadTailProperties DEF VBlock, VAsserts
  <2>8. block' \in [Threads -> [Sems -> Seq(Threads)]]
    BY <2>1, <2>2, <2>7 DEF LInv, BoxType
  <2> QED
    BY <2>2, <2>3, <2>5, <2>6, <2>8 DEF LInv, BoxType
<1> QED
  BY <1>1, <1>2

(* Init establishes the lists and the types. *)
LEMMA InitKeeps == Init => LInv
<1> SUFFICES ASSUME Init PROVE LInv
  OBVIOUS
<1>0. /\ Boot \in Seq(Threads) /\ Distinct(Boot) /\ Idle \notin Threads
      /\ Pool \in Seq(Threads) /\ Distinct(Pool)
      /\ \A t \in Threads : On(Boot, t) <=> ~On(Pool, t)
  BY KernelAssumption
<1> DEFINE h == <<Idle>>
<1>1. h \in Seq(Nodes) /\ Len(h) = 1 /\ h[1] = Idle /\ Boot \in Seq(Nodes)
  <2>1. Threads \subseteq Nodes /\ Idle \in Nodes
    BY DEF Nodes
  <2>2. Boot \in Seq(Nodes)
    BY <1>0, <2>1, SeqMonotonic
  <2> QED
    BY <2>1, <2>2 DEF h
<1>2. ring = h \o Boot
  BY DEF Init
<1> HIDE DEF h
<1>3. /\ ring \in Seq(Nodes) /\ Len(ring) = 1 + Len(Boot) /\ Len(Boot) \in Nat
      /\ \A i \in 1..(1 + Len(Boot)) : ring[i] = IF i <= 1 THEN h[i] ELSE Boot[i - 1]
  <2>1. /\ ring \in Seq(Nodes) /\ Len(ring) = Len(h) + Len(Boot)
        /\ \A i \in 1..(Len(h) + Len(Boot)) :
             ring[i] = IF i <= Len(h) THEN h[i] ELSE Boot[i - Len(h)]
    BY <1>1, <1>2, ConcatProperties
  <2> QED
    BY <1>1, <2>1
<1>4. ring[1] = Idle
  BY <1>1, <1>3
<1>5. \A i \in 2..(1 + Len(Boot)) : ring[i] = Boot[i - 1] /\ ring[i] \in Threads /\ i - 1 \in 1..Len(Boot)
  BY <1>0, <1>3
<1>6. Distinct(ring)
  <2> SUFFICES ASSUME NEW a \in 1..(1 + Len(Boot)), NEW b \in 1..(1 + Len(Boot)), ring[a] = ring[b]
               PROVE  a = b
    BY <1>3 DEF Distinct
  <2>1. CASE a = 1 \/ b = 1
    BY <1>0, <1>3, <1>4, <1>5, <2>1
  <2>2. CASE a # 1 /\ b # 1
    <3>1. a - 1 = b - 1
      <4>1. \A i, j \in 1..Len(Boot) : Boot[i] = Boot[j] => i = j
        BY <1>0 DEF Distinct
      <4>2. a \in 2..(1 + Len(Boot)) /\ b \in 2..(1 + Len(Boot))
        BY <1>3, <2>2
      <4> QED
        BY <1>5, <4>1, <4>2
    <3> QED
      BY <1>3, <3>1
  <2> QED
    BY <2>1, <2>2
<1>7. On(ring, Idle)
  BY <1>3, <1>4 DEF On
<1>8. \A t \in Threads : On(ring, t) <=> On(Boot, t)
  <2> SUFFICES ASSUME NEW t \in Threads PROVE On(ring, t) <=> On(Boot, t)
    OBVIOUS
  <2>1. ASSUME On(ring, t) PROVE On(Boot, t)
    BY <1>0, <1>3, <1>4, <1>5, <2>1 DEF On
  <2>2. ASSUME On(Boot, t) PROVE On(ring, t)
    <3>1. PICK i \in 1..Len(Boot) : Boot[i] = t
      BY <2>2 DEF On
    <3>2. i + 1 \in 1..Len(ring) /\ ring[i + 1] = t
      BY <1>3, <3>1
    <3> QED
      BY <3>2 DEF On
  <2> QED
    BY <2>1, <2>2
<1>9. RingOK(ring, wait, current)
  BY <1>3, <1>4, <1>6, <1>7 DEF RingOK, Init, Nodes
<1>10. FreeOK(free, held)
  BY <1>0 DEF FreeOK, Init
<1>11. Apart(ring, wait, free, held)
  <2>1. wait = {} /\ held = {} /\ free = Pool
    BY DEF Init
  <2> QED
    BY <1>0, <1>8, <2>1 DEF Apart
<1>12. BoxType
  <2>1. isr \in BOOLEAN /\ halted \in BOOLEAN /\ user \in SUBSET Threads
    BY DEF Init
  <2>2. ANY \in Sems /\ "enabled" \in Points
    BY DEF Sems, Points
  <2>3. pc \in [Threads -> Points] /\ from \in [Threads -> Sems]
    BY <2>2 DEF Init
  <2>4. <<>> \in Seq(Threads) /\ <<>> \in Seq(Msgs) /\ 0 \in Int
    OBVIOUS
  <2>5. /\ token \in [Threads -> [Sems -> Int]]
        /\ block \in [Threads -> [Sems -> Seq(Threads)]]
        /\ queue \in [Threads -> Seq(Msgs)]
    BY <2>4 DEF Init
  <2> QED
    BY <2>1, <2>3, <2>5 DEF BoxType
<1> QED
  BY <1>9, <1>10, <1>11, <1>12 DEF LInv, ListsOK

(* Every step keeps the lists and the types. *)
LEMMA NextKeeps == LInv /\ [Next]_vars => LInv'
<1> SUFFICES ASSUME LInv, [Next]_vars PROVE LInv'
  OBVIOUS
<1>0. ListsOK /\ BoxType /\ (Running => current \in Threads) /\ (current # Idle => current \in Threads)
  BY DEF LInv, ListsOK, RingOK, Nodes, Running
<1>1. CASE Enter
  BY <1>0, <1>1 DEF Enter, lists, boxes, LInv, ListsOK, BoxType, Points
<1>2. CASE SyscallReturn
  <2>1. ListsOK'
    BY <1>0, <1>2, RescheduleLists DEF SyscallReturn
  <2> QED
    BY <1>0, <1>2, <2>1 DEF SyscallReturn, boxes, LInv, BoxType, Points
<1>3. CASE IrqBegin
  BY <1>3 DEF IrqBegin, lists, boxes, LInv, ListsOK, BoxType
<1>4. CASE IrqEnd
  <2>1. ListsOK'
    BY <1>0, <1>4, RescheduleLists DEF IrqEnd
  <2> QED
    BY <1>4, <2>1 DEF IrqEnd, boxes, LInv, BoxType
<1>5. CASE SendAny
  <2>1. PICK dest \in Threads, body \in Body :
               IF isr THEN \E src \in IsrSources : Send(src, dest, body)
                      ELSE Send(current, dest, body)
    BY <1>5 DEF SendAny
  <2>2. \A src \in IsrSources : src \in Sources
    BY KernelAssumption
  <2>3. ~isr => Send(current, dest, body) /\ current \in Sources
    BY <1>0, <2>1 DEF Send, InKernel, InThread, Sources
  <2> QED
    BY <2>1, <2>2, <2>3, SendKeeps
<1>6. ASSUME NEW src \in Sems, ReceiveFirst(src) PROVE LInv'
  <2>1. from' \in [Threads -> Sems]
    BY <1>6 DEF ReceiveFirst, LInv, BoxType
  <2>2. Running /\ P(src, "second") /\ "second" \in Points
    BY <1>6 DEF ReceiveFirst, InThread, Points
  <2> QED
    BY <2>1, <2>2, PKeeps
<1>7. CASE ReceiveSecond
  <2>1. CASE from[current] = ANY /\ queue[current] = <<>>
    BY <1>7, <2>1 DEF ReceiveSecond, Halt, lists, boxes, LInv, ListsOK, BoxType
  <2>2. CASE ~(from[current] = ANY /\ queue[current] = <<>>)
    <3> DEFINE s == IF from[current] = ANY THEN Head(queue[current]).src ELSE ANY
    <3>1. Running /\ P(s, "take") /\ "take" \in Points /\ from' = from
      BY <1>7, <2>2 DEF ReceiveSecond, Points
    <3>2. queue[current] # <<>> => Head(queue[current]) \in Msgs
      BY <1>0, <3>1 DEF BoxType
    <3>3. s \in Sems /\ from' \in [Threads -> Sems]
      BY <1>0, <2>2, <3>1, <3>2 DEF BoxType, Msgs, Sems
    <3> HIDE DEF s
    <3> QED
      BY <3>1, <3>3, PKeeps
  <2> QED
    BY <2>1, <2>2
<1>8. CASE ReceiveTake
  <2>1. CASE queue[current] = <<>>
    BY <1>8, <2>1 DEF ReceiveTake, Halt, lists, boxes, LInv, ListsOK, BoxType
  <2>2. CASE queue[current] # <<>>
    <3>1. /\ queue[current] \in Seq(Msgs) /\ from[current] \in Sems
          /\ Found(queue[current], from[current]) \in 1..Len(queue[current])
      BY <1>0, <1>8, <2>2, FoundProperties DEF ReceiveTake, BoxType
    <3>2. RemoveAt(queue[current], Found(queue[current], from[current])) \in Seq(Msgs)
      BY <3>1, RemoveAtProperties
    <3>3. /\ queue' = [queue EXCEPT ![current] = RemoveAt(@, Found(@, from[current]))]
          /\ pc' = [pc EXCEPT ![current] = "run"]
          /\ from' = [from EXCEPT ![current] = ANY]
          /\ UNCHANGED <<lists, isr, user, token, block, halted>>
      BY <1>8, <2>2 DEF ReceiveTake
    <3>4. queue' \in [Threads -> Seq(Msgs)]
      BY <1>0, <3>2, <3>3 DEF BoxType
    <3>5. pc' \in [Threads -> Points] /\ from' \in [Threads -> Sems]
      BY <1>0, <3>3 DEF BoxType, Points, Sems
    <3> QED
      BY <3>3, <3>4, <3>5 DEF lists, LInv, ListsOK, BoxType
  <2> QED
    BY <2>1, <2>2
<1>9. CASE TakePcb
  <2>1. /\ free # <<>> /\ held' = held \cup {Head(free)} /\ free' = Tail(free)
        /\ UNCHANGED <<ring, wait, current, isr, user, pc, from, boxes, halted>>
    BY <1>9 DEF TakePcb
  <2>2. /\ Tail(free) \in Seq(Threads) /\ Distinct(Tail(free))
        /\ Head(free) \in Threads /\ On(free, Head(free))
        /\ \A y : On(Tail(free), y) <=> On(free, y) /\ y # Head(free)
    BY <1>0, <2>1, TailOn DEF ListsOK, FreeOK
  <2>3. FreeOK(free', held')
    BY <1>0, <2>1, <2>2 DEF ListsOK, FreeOK
  <2>4. Apart(ring', wait', free', held')
    BY <1>0, <2>1, <2>2 DEF ListsOK, Apart
  <2> QED
    BY <1>0, <2>1, <2>3, <2>4 DEF boxes, LInv, ListsOK, BoxType
<1>10. CASE Finish
  <2>1. /\ current # Idle /\ ring' = Without(ring, current) /\ free' = Append(free, current)
        /\ current' = Schedule(ring', PrevOf(ring, current))
        /\ UNCHANGED <<wait, held, isr, user, pc, from, boxes, halted>>
    BY <1>10 DEF Finish, InThread, Running
  <2>2. RingOK(ring, wait, current) /\ On(ring, current)
    BY <1>0 DEF ListsOK, RingOK
  <2>3. /\ RingOK(ring', wait, current') /\ current \in Threads
        /\ \A y : On(ring', y) <=> On(ring, y) /\ y # current
    BY <2>1, <2>2, LeaveRing
  <2>4. ~On(free, current) /\ current \notin held /\ current \notin wait
    BY <1>0, <2>2, <2>3 DEF ListsOK, Apart, RingOK
  <2>5. /\ free' \in Seq(Threads) /\ Distinct(free')
        /\ \A y : On(free', y) <=> On(free, y) \/ y = current
    BY <1>0, <2>1, <2>3, <2>4, AppendOn DEF ListsOK, FreeOK
  <2>6. FreeOK(free', held')
    BY <1>0, <2>1, <2>4, <2>5 DEF ListsOK, FreeOK
  <2>7. Apart(ring', wait', free', held')
    BY <1>0, <2>1, <2>3, <2>4, <2>5 DEF ListsOK, Apart
  <2> QED
    BY <1>0, <2>1, <2>3, <2>6, <2>7 DEF boxes, LInv, ListsOK, BoxType
<1>11. ASSUME NEW t \in Threads, PlacePcb(t) PROVE LInv'
  <2>1. /\ t \in held /\ held' = held \ {t} /\ wait' = wait \cup {t}
        /\ user' = user \cup {t} /\ pc' = [pc EXCEPT ![t] = "enabled"]
        /\ InitMsg(t) /\ UNCHANGED <<ring, free, current, isr, from, halted>>
    BY <1>11 DEF PlacePcb
  <2>2. ~On(ring, t) /\ t \notin wait /\ ~On(free, t)
    BY <1>0, <2>1 DEF ListsOK, Apart, FreeOK
  <2>3. RingOK(ring', wait', current')
    BY <1>0, <2>1, <2>2 DEF ListsOK, RingOK
  <2>4. FreeOK(free', held')
    BY <1>0, <2>1 DEF ListsOK, FreeOK
  <2>5. Apart(ring', wait', free', held')
    BY <1>0, <2>1, <2>2 DEF ListsOK, Apart
  <2>6. /\ token' \in [Threads -> [Sems -> Int]]
        /\ block' \in [Threads -> [Sems -> Seq(Threads)]]
        /\ queue' \in [Threads -> Seq(Msgs)]
    BY <1>0, <2>1, InitMsgType
  <2> QED
    BY <1>0, <2>1, <2>3, <2>4, <2>5, <2>6 DEF LInv, ListsOK, BoxType, Points
<1>12. ASSUME NEW t \in Threads, WakeupNew(t) PROVE LInv'
  <2>1. ListsOK'
    BY <1>0, <1>12, WakeupOneLists DEF WakeupNew
  <2> QED
    BY <1>12, <2>1 DEF WakeupNew, boxes, LInv, BoxType
<1>13. ASSUME NEW t \in Threads, ExecReset(t) PROVE LInv'
  <2>1. ListsOK'
    BY <1>0, <1>13, WakeupOneLists DEF ExecReset
  <2>2. /\ token' \in [Threads -> [Sems -> Int]]
        /\ block' \in [Threads -> [Sems -> Seq(Threads)]]
        /\ queue' \in [Threads -> Seq(Msgs)]
    BY <1>0, <1>13, InitMsgType DEF ExecReset
  <2> QED
    BY <1>0, <1>13, <2>1, <2>2 DEF ExecReset, LInv, BoxType, Points
<1>14. ASSUME NEW t \in Threads, ReleasePcb(t) PROVE LInv'
  <2>1. /\ t \in wait /\ wait' = wait \ {t} /\ free' = Append(free, t)
        /\ UNCHANGED <<ring, held, current, isr, user, pc, from, boxes, halted>>
    BY <1>14 DEF ReleasePcb
  <2>2. ~On(ring, t) /\ ~On(free, t) /\ t \notin held
    BY <1>0, <2>1 DEF ListsOK, Apart, RingOK
  <2>3. /\ free' \in Seq(Threads) /\ Distinct(free')
        /\ \A y : On(free', y) <=> On(free, y) \/ y = t
    BY <1>0, <2>1, <2>2, AppendOn DEF ListsOK, FreeOK
  <2>4. RingOK(ring', wait', current')
    BY <1>0, <2>1 DEF ListsOK, RingOK
  <2>5. FreeOK(free', held')
    BY <1>0, <2>1, <2>2, <2>3 DEF ListsOK, FreeOK
  <2>6. Apart(ring', wait', free', held')
    BY <1>0, <2>1, <2>2, <2>3 DEF ListsOK, Apart
  <2> QED
    BY <1>0, <2>1, <2>4, <2>5, <2>6 DEF boxes, LInv, ListsOK, BoxType
<1>15. CASE UNCHANGED vars
  BY <1>15 DEF vars, lists, boxes, LInv, ListsOK, BoxType
<1> QED
  BY <1>1, <1>2, <1>3, <1>4, <1>5, <1>6, <1>7, <1>8, <1>9, <1>10, <1>11, <1>12,
     <1>13, <1>14, <1>15 DEF Next

(* The lists and the types hold in every state of the kernel, for any number of
   PCBs and any MSG_NUM. *)
THEOREM ListsHold == Spec => []LInv
<1>1. Init => LInv
  BY InitKeeps
<1>2. LInv /\ [Next]_vars => LInv'
  BY NextKeeps
<1> QED
  BY <1>1, <1>2, PTL DEF Spec

(* The type invariant of the kernel holds for every value of the constants. *)
THEOREM TypeCorrect == Spec => []TypeOK
<1>1. LInv => TypeOK
  BY LInvIsInvariant
<1> QED
  BY <1>1, ListsHold, PTL

(* sleep(), wakeup(), fork(), exit() and wrap() never put a PCB in two lists and
   never lose one, however they interleave. *)
THEOREM PcbsStayInOneList == Spec => []PcbInOneList
<1>1. LInv => PcbInOneList
  BY LInvIsInvariant
<1> QED
  BY <1>1, ListsHold, PTL
-----------------------------------------------------------------------------
(* schedule() picks the head only when the head is alone in the ring. *)
LEMMA ScheduleIdle ==
  ASSUME NEW r \in Seq(Nodes), Len(r) > 0, r[1] = Idle, Distinct(r), NEW x,
         Schedule(r, x) = Idle
  PROVE  Len(r) = 1
<1>1. NextOf(r, Idle) = Idle
  BY DEF Schedule
<1>2. On(r, Idle)
  BY DEF On
<1>3. IndexOf(r, Idle) \in 1..Len(r) /\ r[IndexOf(r, Idle)] = Idle
  BY <1>2, IndexOfProperties
<1>4. Len(r) \in Nat /\ \A i, j \in 1..Len(r) : r[i] = r[j] => i = j
  BY DEF Distinct
<1>5. IndexOf(r, Idle) = 1
  BY <1>3, <1>4
<1>6. ASSUME Len(r) # 1 PROVE FALSE
  <2>1. NextOf(r, Idle) = r[2]
    BY <1>5, <1>6 DEF NextOf
  <2>2. \A n \in Nat : n > 0 /\ n # 1 => 1 \in 1..n /\ 2 \in 1..n
    OBVIOUS
  <2>3. 1 \in 1..Len(r) /\ 2 \in 1..Len(r)
    BY <1>4, <1>6, <2>2
  <2> QED
    BY <1>1, <1>4, <2>1, <2>3
<1> QED
  BY <1>6

(* The ring after the step, if the step is one that gives up the CPU. *)
LEMMA SwitchToIdle ==
  ASSUME LInv, LInv', current' = Idle, NEW x, current' = Schedule(ring', x)
  PROVE  Len(ring') = 1
<1>1. ring' \in Seq(Nodes) /\ Len(ring') > 0 /\ ring'[1] = Idle /\ Distinct(ring')
  BY DEF LInv, ListsOK, RingOK
<1> QED
  BY <1>1, ScheduleIdle

(* schedule() never gives the CPU to the idle context while a thread is ready. *)
THEOREM NeverIdleTooSoon == Spec => IdleOnlyWhenNothingReady
<1> DEFINE Step == current' = Idle /\ current # Idle => Len(ring') = 1
<1>1. ASSUME LInv, LInv', [Next]_vars PROVE [Step]_vars
  <2> SUFFICES ASSUME current' = Idle, current # Idle PROVE Len(ring') = 1
    OBVIOUS
  <2>1. \/ current' = current
        \/ current' = Schedule(ring', current)
        \/ current' = Schedule(ring', PrevOf(ring, current))
    <3>1. CASE Enter \/ IrqBegin \/ TakePcb \/ ReceiveTake \/ UNCHANGED vars
      BY <3>1 DEF Enter, IrqBegin, TakePcb, ReceiveTake, Halt, lists, vars
    <3>2. CASE SyscallReturn \/ IrqEnd \/ Finish
      BY <3>2 DEF SyscallReturn, IrqEnd, Finish, Reschedule
    <3>3. CASE SendAny
      BY <3>3, ZenonT(30) DEF SendAny, Send, Halt, WakeupAll, lists
    <3>4. CASE ReceiveSecond \/ \E src \in Sems : ReceiveFirst(src)
      BY <3>4 DEF ReceiveSecond, ReceiveFirst, Halt, P, Sleep, lists
    <3>5. CASE \E t \in Threads : PlacePcb(t) \/ WakeupNew(t) \/ ExecReset(t) \/ ReleasePcb(t)
      BY <3>5 DEF PlacePcb, WakeupNew, ExecReset, ReleasePcb, WakeupAll
    <3> QED
      BY <1>1, <3>1, <3>2, <3>3, <3>4, <3>5 DEF Next
  <2> QED
    BY <1>1, <2>1, SwitchToIdle
<1> QED
  BY <1>1, ListsHold, PTL DEF Spec, IdleOnlyWhenNothingReady
-----------------------------------------------------------------------------
(***************************************************************************)
(* The message boxes of module Kernel.  The invariants the runs check are  *)
(* not inductive: that the two semaphores of a message agree with the      *)
(* queue depends on a receive() never sleeping in its second P(), that on  *)
(* no runnable thread owing a token it does not have, and that on wakeup() *)
(* reaching exactly the owner of a negative semaphore.  BoxOK states the   *)
(* three together, thread by thread.                                       *)
(***************************************************************************)

Tokens(t) == \A s \in Sems :
  token[t][s] = Arrived(t, s) - (IF Owes(t, s) THEN 1 ELSE 0)

Blocks(t) == \A s \in Sems :
  block[t][s] = IF token[t][s] < 0 THEN <<t>> ELSE <<>>

\* A thread in the ring owes no semaphore; one asleep has not begun, or sits in
\* its first P(); the second P() is entered in the ring and never left there.
Rests(t) ==
  /\ InRing(t) => \A s \in Sems : token[t][s] >= 0
  /\ t \in wait => pc[t] = "enabled" \/ (pc[t] = "second" /\ token[t][from[t]] < 0)
  /\ pc[t] = "take" => InRing(t)

BoxOK(t) == Tokens(t) /\ Blocks(t) /\ Rests(t)

IInv == LInv /\ \A t \in Threads : BoxOK(t)
-----------------------------------------------------------------------------
(* Facts about one box. *)

(* What a box holds is counted by natural numbers. *)
LEMMA ArrivedType ==
  ASSUME BoxType, NEW t \in Threads, NEW s \in Sems
  PROVE  Arrived(t, s) \in Nat /\ token[t][s] \in Int
<1>1. queue[t] \in Seq(Msgs) /\ token[t][s] \in Int
  BY DEF BoxType
<1>2. Count(queue[t], s) \in Nat /\ Len(queue[t]) \in Nat
  BY <1>1, CountType
<1> QED
  BY <1>1, <1>2 DEF Arrived

(* Only a receive() in progress can make a token negative, and only by one. *)
LEMMA TokenBounds ==
  ASSUME BoxType, NEW t \in Threads, Tokens(t), NEW s \in Sems
  PROVE  /\ token[t][s] >= -1
         /\ ~Owes(t, s) => token[t][s] = Arrived(t, s) /\ token[t][s] >= 0
         /\ Owes(t, s) => token[t][s] = Arrived(t, s) - 1
<1>1. Arrived(t, s) \in Nat
  BY ArrivedType
<1>2. token[t][s] = Arrived(t, s) - (IF Owes(t, s) THEN 1 ELSE 0)
  BY DEF Tokens
<1> QED
  BY <1>1, <1>2

(* Between its first and its second P() a thread of the ring has the message:
   the queue is not empty, and the second semaphore has a token. *)
LEMMA SecondReady ==
  ASSUME BoxType, NEW t \in Threads, BoxOK(t), InRing(t), pc[t] = "second",
         NEW s, s = IF from[t] = ANY THEN Head(queue[t]).src ELSE ANY
  PROVE  /\ queue[t] # <<>> /\ s \in Sems /\ s # from[t]
         /\ token[t][s] > 0 /\ token[t][s] = Arrived(t, s)
<1>1. /\ queue[t] \in Seq(Msgs) /\ from[t] \in Sems /\ ANY \in Sems
      /\ ANY \notin Sources
  BY KernelAssumption DEF BoxType, Sems
<1>2. \A x \in Sems : Owes(t, x) <=> x = from[t]
  BY DEF Owes
<1>3. token[t][from[t]] >= 0 /\ token[t][from[t]] = Arrived(t, from[t]) - 1
  <2>1. token[t][from[t]] >= 0
    BY <1>1 DEF BoxOK, Rests
  <2>2. token[t][from[t]] = Arrived(t, from[t]) - 1
    BY <1>1, <1>2, TokenBounds DEF BoxOK
  <2> QED
    BY <2>1, <2>2
<1>4. Arrived(t, from[t]) \in Nat /\ Arrived(t, from[t]) > 0
  <2>1. Arrived(t, from[t]) \in Nat
    BY <1>1, ArrivedType
  <2> QED
    BY <1>3, <2>1
<1>5. CASE from[t] = ANY
  <2>1. Len(queue[t]) > 0 /\ queue[t] # <<>>
    BY <1>1, <1>4, <1>5 DEF Arrived
  <2>2. s = queue[t][1].src /\ s \in Sources
    <3>1. Head(queue[t]) = queue[t][1] /\ queue[t][1] \in Msgs
      BY <1>1, <2>1
    <3> QED
      BY <1>5, <3>1 DEF Msgs
  <2>3. s \in Sems /\ s # ANY
    BY <1>1, <2>2 DEF Sems
  <2>4. Count(queue[t], s) \in Nat /\ Count(queue[t], s) > 0
    <3>1. 1 \in 1..Len(queue[t])
      BY <1>1, <2>1
    <3> QED
      BY <1>1, <2>2, <3>1, CountType
  <2>5. token[t][s] = Arrived(t, s)
    BY <1>2, <1>5, <2>3, TokenBounds DEF BoxOK
  <2> QED
    BY <1>5, <2>1, <2>3, <2>4, <2>5 DEF Arrived
<1>6. CASE from[t] # ANY
  <2>1. Count(queue[t], from[t]) > 0
    BY <1>4, <1>6 DEF Arrived
  <2>2. \E i \in 1..Len(queue[t]) : queue[t][i].src = from[t]
    BY <1>1, <2>1, CountType
  <2>3. Len(queue[t]) > 0 /\ queue[t] # <<>> /\ Len(queue[t]) \in Nat
    BY <1>1, <2>2
  <2>4. s = ANY /\ token[t][s] = Arrived(t, s)
    BY <1>1, <1>2, <1>6, TokenBounds DEF BoxOK
  <2> QED
    BY <1>1, <1>6, <2>3, <2>4 DEF Arrived
<1> QED
  BY <1>5, <1>6

(* After its second P() the message is there, and is the one claimed. *)
LEMMA TakeReady ==
  ASSUME BoxType, NEW t \in Threads, BoxOK(t), pc[t] = "take"
  PROVE  /\ queue[t] # <<>>
         /\ from[t] # ANY => \E i \in 1..Len(queue[t]) : queue[t][i].src = from[t]
<1>1. /\ queue[t] \in Seq(Msgs) /\ from[t] \in Sems /\ ANY \in Sems
  BY DEF BoxType, Sems
<1>2. InRing(t) /\ token[t][from[t]] >= 0 /\ Owes(t, from[t])
  BY <1>1 DEF BoxOK, Rests, Owes
<1>3. Arrived(t, from[t]) \in Nat /\ Arrived(t, from[t]) > 0
  <2>1. Arrived(t, from[t]) \in Nat
    BY <1>1, ArrivedType
  <2>2. token[t][from[t]] = Arrived(t, from[t]) - 1
    BY <1>1, <1>2, TokenBounds DEF BoxOK
  <2> QED
    BY <1>2, <2>1, <2>2
<1>4. CASE from[t] = ANY
  BY <1>1, <1>3, <1>4 DEF Arrived
<1>5. CASE from[t] # ANY
  <2>1. Count(queue[t], from[t]) > 0
    BY <1>3, <1>5 DEF Arrived
  <2>2. \E i \in 1..Len(queue[t]) : queue[t][i].src = from[t]
    BY <1>1, <2>1, CountType
  <2> QED
    BY <1>1, <2>2
<1> QED
  BY <1>4, <1>5
-----------------------------------------------------------------------------
(* How a step can leave a box alone, or make it new. *)

(* The step does not concern t, except that it may leave the ring between two
   receives, or leave the wait list. *)
LEMMA Frame ==
  ASSUME NEW t \in Threads, BoxOK(t),
         pc'[t] = pc[t], from'[t] = from[t],
         token'[t] = token[t], block'[t] = block[t], queue'[t] = queue[t],
         On(ring', t) => On(ring, t),
         On(ring, t) /\ pc[t] = "take" => On(ring', t),
         t \in wait' => t \in wait
  PROVE  BoxOK(t)'
<1>1. Tokens(t)'
  BY DEF BoxOK, Tokens, Arrived, Owes
<1>2. Blocks(t)'
  BY DEF BoxOK, Blocks
<1>3. Rests(t)'
  BY DEF BoxOK, Rests, InRing
<1> QED
  BY <1>1, <1>2, <1>3 DEF BoxOK

(* Between receives only the place of t changes. *)
LEMMA Quiet ==
  ASSUME BoxType, NEW t \in Threads, BoxOK(t),
         pc[t] \in {"enabled", "run"}, pc'[t] \in {"enabled", "run"},
         token'[t] = token[t], block'[t] = block[t], queue'[t] = queue[t],
         t \in wait' => pc'[t] = "enabled"
  PROVE  BoxOK(t)'
<1>1. \A s : ~Owes(t, s) /\ ~(Owes(t, s)')
  BY DEF Owes
<1>2. Tokens(t)'
  BY <1>1 DEF BoxOK, Tokens, Arrived
<1>3. Blocks(t)'
  BY DEF BoxOK, Blocks
<1>4. \A s \in Sems : token[t][s] >= 0
  BY <1>1, TokenBounds DEF BoxOK
<1>5. Rests(t)'
  BY <1>4 DEF Rests
<1> QED
  BY <1>2, <1>3, <1>5 DEF BoxOK

(* init_msg(): an empty box, and no receive in progress. *)
LEMMA EmptyBox ==
  ASSUME BoxType, NEW t \in Threads, InitMsg(t), pc'[t] = "enabled"
  PROVE  BoxOK(t)'
<1>1. /\ token'[t] = [s \in Sems |-> 0]
      /\ block'[t] = [s \in Sems |-> <<>>]
      /\ queue'[t] = <<>>
  BY DEF BoxType, InitMsg
<1>2. \A s : ~(Owes(t, s)')
  BY DEF Owes
<1>3. \A s \in Sems : Arrived(t, s)' = 0
  BY <1>1, CountEmpty DEF Arrived
<1>4. Tokens(t)'
  BY <1>1, <1>2, <1>3 DEF Tokens
<1>5. Blocks(t)' /\ Rests(t)'
  BY <1>1 DEF Blocks, Rests
<1> QED
  BY <1>4, <1>5 DEF BoxOK

(* init_msg() of one PCB leaves the other boxes. *)
LEMMA InitMsgOthers ==
  ASSUME BoxType, NEW t \in Threads, InitMsg(t), NEW u \in Threads, u # t
  PROVE  token'[u] = token[u] /\ block'[u] = block[u] /\ queue'[u] = queue[u]
BY DEF BoxType, InitMsg
-----------------------------------------------------------------------------
(* The steps. *)

(* receive(src) up to its first P(). *)
LEMMA FirstStep ==
  ASSUME IInv, NEW src \in Sems, ReceiveFirst(src), NEW t \in Threads
  PROVE  BoxOK(t)'
<1> DEFINE c == current
<1>1. /\ LInv /\ BoxType /\ ListsOK /\ c \in Threads /\ c # Idle /\ pc[c] = "run"
      /\ On(ring, c) /\ c \notin wait /\ BoxOK(c) /\ BoxOK(t)
  BY DEF IInv, LInv, ListsOK, RingOK, Nodes, ReceiveFirst, InThread, Running
<1>2. /\ from' = [from EXCEPT ![c] = src] /\ pc' = [pc EXCEPT ![c] = "second"]
      /\ token' = [token EXCEPT ![c][src] = @ - 1] /\ queue' = queue
  BY DEF ReceiveFirst, P
<1>3. CASE t # c
  <2>1. pc'[t] = pc[t] /\ from'[t] = from[t] /\ token'[t] = token[t] /\ queue'[t] = queue[t]
    BY <1>1, <1>2, <1>3 DEF BoxType
  <2>2. block'[t] = block[t]
    BY <1>1, <1>3 DEF BoxType, ReceiveFirst, P
  <2>3. (On(ring', t) <=> On(ring, t)) /\ (t \in wait' <=> t \in wait)
    <3>1. CASE token[c][src] > 0
      BY <3>1 DEF ReceiveFirst, P, lists
    <3>2. CASE ~(token[c][src] > 0)
      <4>1. Sleep
        BY <3>2 DEF ReceiveFirst, P
      <4> QED
        BY <1>1, <1>3, <4>1, SleepLists
    <3> QED
      BY <3>1, <3>2
  <2> QED
    BY <1>1, <2>1, <2>2, <2>3, Frame
<1>4. CASE t = c
  <2>1. \A s : ~Owes(c, s)
    BY <1>1 DEF Owes
  <2>2. \A s \in Sems : token[c][s] = Arrived(c, s) /\ token[c][s] \in Nat
    BY <1>1, <2>1, TokenBounds, ArrivedType DEF BoxOK
  <2>3. \A s \in Sems : token'[c][s] = IF s = src THEN token[c][s] - 1 ELSE token[c][s]
    BY <1>1, <1>2 DEF BoxType
  <2>4. pc'[c] = "second" /\ from'[c] = src /\ queue'[c] = queue[c]
    BY <1>1, <1>2 DEF BoxType
  <2>6. Tokens(t)'
    <3>1. \A s \in Sems : token'[t][s] = Arrived(t, s) - (IF s = src THEN 1 ELSE 0)
      BY <1>4, <2>2, <2>3
    <3>2. \A s \in Sems : (Owes(t, s)' <=> s = src) /\ Arrived(t, s)' = Arrived(t, s)
      BY <1>4, <2>4 DEF Owes, Arrived
    <3> QED
      BY <3>1, <3>2 DEF Tokens
  <2>7. \A s \in Sems : block[c][s] = <<>>
    BY <1>1, <2>2 DEF BoxOK, Blocks
  <2>8. CASE token[c][src] > 0
    <3>1. block' = block /\ ring' = ring /\ wait' = wait
      BY <2>8 DEF ReceiveFirst, P, lists
    <3>2. \A s \in Sems : token'[t][s] >= 0 /\ ~(token'[t][s] < 0)
      BY <1>4, <2>2, <2>3, <2>8
    <3>3. Blocks(t)'
      BY <1>4, <2>7, <3>1, <3>2 DEF Blocks
    <3>4. Rests(t)'
      BY <1>1, <1>4, <2>4, <3>1, <3>2 DEF Rests, InRing
    <3> QED
      BY <2>6, <3>3, <3>4 DEF BoxOK
  <2>9. CASE ~(token[c][src] > 0)
    <3>1. block' = [block EXCEPT ![c][src] = Append(@, c)] /\ Sleep
      BY <2>9 DEF ReceiveFirst, P
    <3>2. wait' = wait \cup {c} /\ ~On(ring', c)
      BY <1>1, <3>1, SleepLists
    <3>3. \A s \in Sems : block'[c][s] = IF s = src THEN Append(<<>>, c) ELSE <<>>
      BY <1>1, <2>7, <3>1 DEF BoxType
    <3>4. \A s \in Sems : token'[c][s] < 0 <=> s = src
      BY <2>2, <2>3, <2>9
    <3>5. Append(<<>>, c) = <<c>>
      OBVIOUS
    <3>6. Blocks(t)'
      BY <1>4, <3>3, <3>4, <3>5 DEF Blocks
    <3>7. Rests(t)'
      BY <1>4, <2>4, <3>2, <3>4 DEF Rests, InRing
    <3> QED
      BY <2>6, <3>6, <3>7 DEF BoxOK
  <2> QED
    BY <2>8, <2>9
<1> QED
  BY <1>3, <1>4

(* The second P() of receive(): it never sleeps. *)
LEMMA SecondStep ==
  ASSUME IInv, ReceiveSecond, NEW t \in Threads
  PROVE  BoxOK(t)'
<1> DEFINE c == current
           s2 == IF from[c] = ANY THEN Head(queue[c]).src ELSE ANY
<1>1. /\ LInv /\ BoxType /\ ListsOK /\ c \in Threads /\ c # Idle /\ pc[c] = "second"
      /\ InRing(c) /\ c \notin wait /\ BoxOK(c) /\ BoxOK(t)
  BY DEF IInv, LInv, ListsOK, RingOK, Nodes, ReceiveSecond, Running, InRing
<1>2. /\ queue[c] # <<>> /\ s2 \in Sems /\ s2 # from[c]
      /\ token[c][s2] > 0 /\ token[c][s2] = Arrived(c, s2)
  BY <1>1, SecondReady
<1>3. P(s2, "take") /\ from' = from
  BY <1>2 DEF ReceiveSecond
<1> HIDE DEF s2
<1>4. /\ token' = [token EXCEPT ![c][s2] = @ - 1] /\ pc' = [pc EXCEPT ![c] = "take"]
      /\ ring' = ring /\ wait' = wait /\ block' = block /\ queue' = queue
  BY <1>2, <1>3 DEF P, lists
<1>5. CASE t # c
  <2>1. pc'[t] = pc[t] /\ token'[t] = token[t]
    BY <1>1, <1>4, <1>5 DEF BoxType
  <2> QED
    BY <1>1, <1>3, <1>4, <2>1, Frame
<1>6. CASE t = c
  <2>1. pc'[t] = "take" /\ pc[t] = "second"
    BY <1>1, <1>4, <1>6 DEF BoxType
  <2>2. \A s \in Sems : token'[t][s] = IF s = s2 THEN token[t][s] - 1 ELSE token[t][s]
    BY <1>1, <1>4, <1>6 DEF BoxType
  <2>3. \A s \in Sems : Arrived(t, s)' = Arrived(t, s)
    BY <1>4 DEF Arrived
  <2>4. \A s \in Sems : Owes(t, s) <=> s = from[t]
    BY <2>1 DEF Owes
  <2>5. \A s \in Sems : Owes(t, s)' <=> s = from[t] \/ s = s2
    BY <1>2, <1>3, <1>4, <1>6, <2>1 DEF Owes, s2
  <2>6. \A s \in Sems : token[t][s] \in Int /\ Arrived(t, s) \in Nat
    BY <1>1, ArrivedType
  <2>7. Tokens(t)'
    <3>1. \A s \in Sems : token[t][s] = Arrived(t, s) - (IF s = from[t] THEN 1 ELSE 0)
      BY <1>1, <2>4 DEF BoxOK, Tokens
    <3>2. \A s \in Sems : token'[t][s] =
                            Arrived(t, s) - (IF s = from[t] \/ s = s2 THEN 1 ELSE 0)
      BY <1>2, <1>6, <2>2, <2>6, <3>1
    <3> QED
      BY <2>3, <2>5, <3>2 DEF Tokens
  <2>8. \A s \in Sems : token'[t][s] >= 0 /\ ~(token[t][s] < 0) /\ ~(token'[t][s] < 0)
    <3>1. \A s \in Sems : token[t][s] >= 0
      BY <1>1, <1>6 DEF BoxOK, Rests
    <3> QED
      BY <1>2, <1>6, <2>2, <2>6, <3>1
  <2>9. Blocks(t)'
    BY <1>1, <1>4, <2>8 DEF BoxOK, Blocks
  <2>10. Rests(t)'
    BY <1>1, <1>4, <1>6, <2>8 DEF Rests, InRing
  <2> QED
    BY <2>7, <2>9, <2>10 DEF BoxOK
<1> QED
  BY <1>5, <1>6

(* receive() takes the message its two tokens stood for. *)
LEMMA TakeStep ==
  ASSUME IInv, ReceiveTake, NEW t \in Threads
  PROVE  BoxOK(t)'
<1> DEFINE c == current
           q == queue[c]
           k == Found(q, from[c])
<1>1. /\ LInv /\ BoxType /\ ListsOK /\ c \in Threads /\ pc[c] = "take"
      /\ InRing(c) /\ c \notin wait /\ BoxOK(c) /\ BoxOK(t)
  BY DEF IInv, LInv, ListsOK, RingOK, Nodes, ReceiveTake, Running, InRing
<1>2. /\ q # <<>> /\ q \in Seq(Msgs) /\ from[c] \in Sems
      /\ from[c] # ANY => \E i \in 1..Len(q) : q[i].src = from[c]
  BY <1>1, TakeReady DEF BoxType
<1>3. /\ queue' = [queue EXCEPT ![c] = RemoveAt(@, Found(@, from[c]))]
      /\ pc' = [pc EXCEPT ![c] = "run"]
      /\ from' = [from EXCEPT ![c] = ANY]
      /\ UNCHANGED <<ring, wait, token, block>>
  BY <1>2 DEF ReceiveTake, lists
<1>4. /\ k \in 1..Len(q)
      /\ from[c] = ANY => k = 1
      /\ from[c] # ANY => q[k].src = from[c]
  BY <1>2, FoundProperties
<1>5. CASE t # c
  <2>1. pc'[t] = pc[t] /\ from'[t] = from[t] /\ queue'[t] = queue[t]
    BY <1>1, <1>3, <1>5 DEF BoxType
  <2> QED
    BY <1>1, <1>3, <2>1, Frame
<1>6. CASE t = c
  <2>1. pc'[t] = "run" /\ queue'[t] = RemoveAt(q, k)
    BY <1>1, <1>3, <1>6 DEF BoxType
  <2> HIDE DEF k, q
  <2>2. \A s \in Sems : ~(Owes(t, s)')
    BY <2>1 DEF Owes
  <2>3. \A s \in Sems : Owes(t, s) <=> s = ANY \/ s = q[k].src
    <3>1. q[k].src # ANY /\ Head(q) = q[1]
      <4>1. q[k] \in Msgs /\ Head(q) = q[1]
        BY <1>2, <1>4
      <4>2. ANY \notin Sources
        BY KernelAssumption
      <4> QED
        BY <4>1, <4>2 DEF Msgs
    <3>2. CASE from[c] = ANY
      BY <1>1, <1>2, <1>4, <1>6, <3>1, <3>2 DEF Owes, q
    <3>3. CASE from[c] # ANY
      BY <1>1, <1>2, <1>4, <1>6, <3>1, <3>3 DEF Owes
    <3> QED
      BY <3>2, <3>3
  <2>4. \A s \in Sems : Arrived(t, s)' =
                          Arrived(t, s) - (IF s = ANY \/ s = q[k].src THEN 1 ELSE 0)
    <3> SUFFICES ASSUME NEW s \in Sems
                 PROVE  Arrived(t, s)' = Arrived(t, s) - (IF s = ANY \/ s = q[k].src THEN 1 ELSE 0)
      OBVIOUS
    <3>1. Len(RemoveAt(q, k)) = Len(q) - 1
      BY <1>2, <1>4, RemoveAtProperties
    <3>2. Count(RemoveAt(q, k), s) = Count(q, s) - (IF q[k].src = s THEN 1 ELSE 0)
      BY <1>2, <1>4, CountRemove
    <3>3. queue[t] = q
      BY <1>6 DEF q
    <3> QED
      BY <2>1, <3>1, <3>2, <3>3 DEF Arrived
  <2>5. \A s \in Sems : token[t][s] = Arrived(t, s) - (IF s = ANY \/ s = q[k].src THEN 1 ELSE 0)
    BY <1>1, <2>3 DEF BoxOK, Tokens
  <2>6. \A s \in Sems : token'[t][s] = Arrived(t, s)' /\ Arrived(t, s)' \in Int
    <3>1. \A s \in Sems : token[t][s] \in Int
      BY <1>1 DEF BoxType
    <3> QED
      BY <1>3, <2>4, <2>5, <3>1
  <2>7. Tokens(t)'
    BY <2>2, <2>6 DEF Tokens
  <2>8. Blocks(t)'
    BY <1>1, <1>3 DEF BoxOK, Blocks
  <2>9. Rests(t)'
    BY <1>1, <1>3, <1>6, <2>1 DEF BoxOK, Rests, InRing
  <2> QED
    BY <2>7, <2>8, <2>9 DEF BoxOK
<1> QED
  BY <1>5, <1>6

(* The wakeup in V() reaches the owner of the semaphore, and nobody else. *)
LEMMA VWakesOwner ==
  ASSUME NEW r, NEW w, RingOK(r, w, current), NEW t \in Threads, Blocks(t), NEW s \in Sems,
         NEW st, st = VWakes([ring |-> r, wait |-> w], t, s)
  PROVE  /\ RingOK(st.ring, st.wait, current)
         /\ st = [ring |-> st.ring, wait |-> st.wait]
         /\ st.wait = IF token[t][s] < 0 THEN w \ {t} ELSE w
         /\ \A y : On(st.ring, y) <=> On(r, y) \/ (token[t][s] < 0 /\ y = t /\ t \in w)
<1>1. CASE token[t][s] < 0
  <2>1. block[t][s] = <<t>> /\ Head(<<t>>) = t
    BY <1>1 DEF Blocks
  <2>2. st = WakeupIn([ring |-> r, wait |-> w], t)
    BY <1>1, <2>1 DEF VWakes
  <2>3. /\ RingOK(st.ring, st.wait, current)
        /\ st = [ring |-> st.ring, wait |-> st.wait]
        /\ st.wait = w \ {t}
        /\ \A y : On(st.ring, y) <=> On(r, y) \/ (y = t /\ t \in w)
    BY <2>2, WakeupInProperties
  <2> QED
    BY <1>1, <2>3
<1>2. CASE ~(token[t][s] < 0)
  <2>1. st = [ring |-> r, wait |-> w]
    BY <1>2 DEF VWakes
  <2> QED
    BY <1>2, <2>1
<1> QED
  BY <1>1, <1>2

(* Whom the two V() of send() wake: dest, when one of its tokens was negative. *)
LEMMA SendWakes ==
  ASSUME ListsOK, NEW dest \in Threads, Blocks(dest), NEW src \in Sources,
         WakeupAll(VWakes(VWakes([ring |-> ring, wait |-> wait], dest, ANY), dest, src)),
         NEW W, W = (token[dest][ANY] < 0 \/ token[dest][src] < 0)
  PROVE  /\ \A y : y \in wait' <=> y \in wait /\ ~(W /\ y = dest)
         /\ \A y : On(ring', y) <=> On(ring, y) \/ (W /\ y = dest /\ dest \in wait)
<1> DEFINE one == VWakes([ring |-> ring, wait |-> wait], dest, ANY)
           two == VWakes([ring |-> one.ring, wait |-> one.wait], dest, src)
<1>1. RingOK(ring, wait, current) /\ ANY \in Sems /\ src \in Sems
  BY DEF ListsOK, Sems
<1>2. /\ RingOK(one.ring, one.wait, current)
      /\ one = [ring |-> one.ring, wait |-> one.wait]
      /\ one.wait = IF token[dest][ANY] < 0 THEN wait \ {dest} ELSE wait
      /\ \A y : On(one.ring, y) <=> On(ring, y) \/ (token[dest][ANY] < 0 /\ y = dest /\ dest \in wait)
  BY <1>1, VWakesOwner, SMTT(60)
<1>3. ring' = two.ring /\ wait' = two.wait
  BY <1>2 DEF WakeupAll
<1> HIDE DEF one
<1>4. /\ two.wait = IF token[dest][src] < 0 THEN one.wait \ {dest} ELSE one.wait
      /\ \A y : On(two.ring, y) <=> On(one.ring, y) \/ (token[dest][src] < 0 /\ y = dest /\ dest \in one.wait)
  BY <1>1, <1>2, VWakesOwner
<1> HIDE DEF two
<1> QED
  BY <1>2, <1>3, <1>4

(* send() *)
LEMMA SendStep ==
  ASSUME IInv, NEW src \in Sources, NEW dest \in Threads, NEW body \in Body,
         Send(src, dest, body), NEW t \in Threads
  PROVE  BoxOK(t)'
<1> DEFINE W == token[dest][ANY] < 0 \/ token[dest][src] < 0
           m == [src |-> src, body |-> body]
<1>1. LInv /\ BoxType /\ ListsOK /\ BoxOK(dest) /\ BoxOK(t)
  BY DEF IInv, LInv
<1>2. ANY \in Sems /\ src \in Sems /\ src # ANY /\ m \in Msgs
  BY KernelAssumption DEF Sems, Msgs
<1>3. CASE FreeSlots(dest) = 0 \/ ~VAsserts(dest, ANY) \/ ~VAsserts(dest, src)
  BY <1>1, <1>3, Frame DEF Send, Halt, lists, boxes
<1>4. CASE ~(FreeSlots(dest) = 0 \/ ~VAsserts(dest, ANY) \/ ~VAsserts(dest, src))
  <2>1. /\ queue' = [queue EXCEPT ![dest] = Append(@, m)]
        /\ token' = [token EXCEPT ![dest][ANY] = @ + 1, ![dest][src] = @ + 1]
        /\ block' = [block EXCEPT ![dest][ANY] = VBlock(dest, ANY),
                                  ![dest][src] = VBlock(dest, src)]
        /\ WakeupAll(VWakes(VWakes([ring |-> ring, wait |-> wait], dest, ANY), dest, src))
        /\ UNCHANGED <<pc, from>>
    BY <1>4 DEF Send
  <2>2. /\ \A y : y \in wait' <=> y \in wait /\ ~(W /\ y = dest)
        /\ \A y : On(ring', y) <=> On(ring, y) \/ (W /\ y = dest /\ dest \in wait)
    BY <1>1, <2>1, SendWakes DEF BoxOK
  <2>3. CASE t # dest
    <3>1. token'[t] = token[t] /\ block'[t] = block[t] /\ queue'[t] = queue[t]
      BY <1>1, <1>2, <2>1, <2>3 DEF BoxType
    <3> QED
      BY <1>1, <2>1, <2>2, <2>3, <3>1, Frame
  <2>4. CASE t = dest
    <3>1. \A s \in Sems : token'[t][s] = IF s = ANY \/ s = src THEN token[t][s] + 1 ELSE token[t][s]
      BY <1>1, <1>2, <2>1, <2>4 DEF BoxType
    <3>2. \A s \in Sems : block'[t][s] = IF s = ANY \/ s = src THEN VBlock(t, s) ELSE block[t][s]
      BY <1>1, <1>2, <2>1, <2>4 DEF BoxType
    <3>3. queue'[t] = Append(queue[t], m) /\ queue[t] \in Seq(Msgs) /\ m.src = src
      BY <1>1, <2>1, <2>4 DEF BoxType
    <3> HIDE DEF m
    <3>4. \A s \in Sems : Arrived(t, s)' = IF s = ANY \/ s = src THEN Arrived(t, s) + 1 ELSE Arrived(t, s)
      <4> SUFFICES ASSUME NEW s \in Sems
                   PROVE  Arrived(t, s)' = IF s = ANY \/ s = src THEN Arrived(t, s) + 1 ELSE Arrived(t, s)
        OBVIOUS
      <4>1. Len(queue'[t]) = Len(queue[t]) + 1
        BY <1>2, <3>3, AppendProperties
      <4>2. Count(queue'[t], s) = Count(queue[t], s) + (IF src = s THEN 1 ELSE 0)
        BY <1>2, <3>3, CountAppend
      <4>3. Arrived(t, s) \in Nat
        BY <1>1, ArrivedType
      <4> QED
        BY <1>2, <4>1, <4>2, <4>3 DEF Arrived
    <3>5. \A s \in Sems : Owes(t, s)' <=> Owes(t, s)
      <4>1. CASE pc[t] = "take"
        <5>1. queue[t] # <<>>
          BY <1>1, <4>1, TakeReady
        <5>2. queue'[t] # <<>> /\ Head(queue'[t]) = Head(queue[t])
          BY <1>2, <3>3, <5>1, HeadTailAppend, AppendProperties
        <5> QED
          BY <2>1, <5>1, <5>2 DEF Owes
      <4>2. CASE pc[t] # "take"
        BY <2>1, <4>2 DEF Owes
      <4> QED
        BY <4>1, <4>2
    <3>6. \A s \in Sems : Arrived(t, s) \in Nat /\ token[t][s] \in Int /\ token[t][s] >= -1
      BY <1>1, ArrivedType, TokenBounds DEF BoxOK
    <3>7. Tokens(t)'
      <4>1. \A s \in Sems : token[t][s] = Arrived(t, s) - (IF Owes(t, s) THEN 1 ELSE 0)
        BY <1>1 DEF BoxOK, Tokens
      <4>2. \A s \in Sems : token'[t][s] = Arrived(t, s)' - (IF Owes(t, s) THEN 1 ELSE 0)
        BY <3>1, <3>4, <3>6, <4>1
      <4> QED
        BY <3>5, <4>2 DEF Tokens
    <3>8. Blocks(t)'
      <4> SUFFICES ASSUME NEW s \in Sems
                   PROVE  block'[t][s] = IF token'[t][s] < 0 THEN <<t>> ELSE <<>>
        BY DEF Blocks
      <4>1. block[t][s] = IF token[t][s] < 0 THEN <<t>> ELSE <<>>
        BY <1>1 DEF BoxOK, Blocks
      <4>2. CASE s = ANY \/ s = src
        <5>1. Tail(<<t>>) = <<>>
          OBVIOUS
        <5>2. block'[t][s] = <<>>
          BY <3>2, <4>1, <4>2, <5>1 DEF VBlock
        <5>3. ~(token'[t][s] < 0)
          BY <3>1, <3>6, <4>2
        <5> QED
          BY <5>2, <5>3
      <4>3. CASE ~(s = ANY \/ s = src)
        BY <3>1, <3>2, <4>1, <4>3
      <4> QED
        BY <4>2, <4>3
    <3>9. ASSUME t \in wait
          PROVE  \/ pc[t] = "enabled" /\ ~W
                 \/ /\ pc[t] = "second" /\ token[t][from[t]] < 0 /\ from[t] \in Sems
                    /\ W <=> from[t] = ANY \/ from[t] = src
      <4>1. pc[t] = "enabled" \/ (pc[t] = "second" /\ token[t][from[t]] < 0)
        BY <1>1, <3>9 DEF BoxOK, Rests
      <4>2. \A s \in Sems : ~Owes(t, s) => ~(token[t][s] < 0)
        BY <1>1, <3>6, TokenBounds DEF BoxOK
      <4>3. CASE pc[t] = "enabled"
        <5>1. \A s : ~Owes(t, s)
          BY <4>3 DEF Owes
        <5> QED
          BY <1>2, <2>4, <4>2, <4>3, <5>1
      <4>4. CASE pc[t] = "second" /\ token[t][from[t]] < 0
        <5>1. \A s : Owes(t, s) <=> s = from[t]
          BY <4>4 DEF Owes
        <5>2. from[t] \in Sems
          BY <1>1 DEF BoxType
        <5> QED
          BY <1>2, <2>4, <4>2, <4>4, <5>1, <5>2
      <4> QED
        BY <4>1, <4>3, <4>4
    <3> HIDE DEF W
    <3>10. Rests(t)'
      <4>1. ASSUME On(ring', t), NEW s \in Sems PROVE token'[t][s] >= 0
        <5>1. CASE On(ring, t)
          <6>1. token[t][s] >= 0
            BY <1>1, <5>1 DEF BoxOK, Rests, InRing
          <6> QED
            BY <3>1, <3>6, <6>1
        <5>2. CASE ~On(ring, t)
          <6>1. W /\ t \in wait
            BY <2>2, <4>1, <5>2, <2>4
          <6>2. pc[t] = "second" /\ (from[t] = ANY \/ from[t] = src)
            BY <3>9, <6>1
          <6>3. CASE s = from[t]
            BY <3>1, <3>6, <6>2, <6>3
          <6>4. CASE s # from[t]
            <7>1. ~Owes(t, s)
              BY <6>2, <6>4 DEF Owes
            <7>2. token[t][s] >= 0
              BY <1>1, <7>1, TokenBounds DEF BoxOK
            <7> QED
              BY <3>1, <3>6, <7>2
          <6> QED
            BY <6>3, <6>4
        <5> QED
          BY <5>1, <5>2
      <4>2. ASSUME t \in wait'
            PROVE  pc[t] = "enabled" \/ (pc[t] = "second" /\ token'[t][from[t]] < 0)
        <5>1. t \in wait /\ ~W
          BY <2>2, <2>4, <4>2
        <5> QED
          BY <3>1, <3>9, <5>1
      <4>3. pc[t] = "take" => On(ring', t)
        BY <1>1, <2>2 DEF BoxOK, Rests, InRing
      <4> QED
        BY <2>1, <4>1, <4>2, <4>3 DEF Rests, InRing
    <3> QED
      BY <3>7, <3>8, <3>10 DEF BoxOK
  <2> QED
    BY <2>3, <2>4
<1> QED
  BY <1>3, <1>4

(* Init establishes the boxes. *)
LEMMA InitBoxes == Init => \A t \in Threads : BoxOK(t)
<1> SUFFICES ASSUME Init, NEW t \in Threads PROVE BoxOK(t)
  OBVIOUS
<1>1. /\ pc[t] = "enabled" /\ queue[t] = <<>> /\ wait = {}
      /\ \A s \in Sems : token[t][s] = 0 /\ block[t][s] = <<>>
  BY DEF Init
<1>2. \A s : ~Owes(t, s)
  BY <1>1 DEF Owes
<1>3. \A s \in Sems : Arrived(t, s) = 0
  BY <1>1, CountEmpty DEF Arrived
<1> QED
  BY <1>1, <1>2, <1>3 DEF BoxOK, Tokens, Blocks, Rests

(* Every step keeps the boxes. *)
LEMMA NextBoxes ==
  ASSUME IInv, [Next]_vars, NEW t \in Threads
  PROVE  BoxOK(t)'
<1>0. /\ LInv /\ BoxType /\ ListsOK /\ BoxOK(t)
      /\ On(ring, current) /\ (current # Idle => current \in Threads /\ current \notin wait)
  BY DEF IInv, LInv, ListsOK, RingOK, Nodes
<1>1. CASE Enter
  <2>1. /\ pc' = [pc EXCEPT ![current] = "run"] /\ pc[current] = "enabled"
        /\ current \in Threads /\ current \notin wait
        /\ UNCHANGED <<ring, wait, from, token, block, queue>>
    BY <1>0, <1>1 DEF Enter, Running, lists, boxes
  <2>2. CASE t = current
    BY <1>0, <2>1, <2>2, Quiet DEF BoxType
  <2>3. CASE t # current
    BY <1>0, <2>1, <2>3, Frame DEF BoxType
  <2> QED
    BY <2>2, <2>3
<1>2. CASE SyscallReturn
  <2>1. /\ pc' = [pc EXCEPT ![current] = "enabled"] /\ pc[current] = "run"
        /\ current \in Threads
        /\ UNCHANGED <<ring, wait, from, token, block, queue>>
    BY <1>0, <1>2 DEF SyscallReturn, InThread, Running, Reschedule, boxes
  <2>2. CASE t = current
    BY <1>0, <2>1, <2>2, Quiet DEF BoxType
  <2>3. CASE t # current
    BY <1>0, <2>1, <2>3, Frame DEF BoxType
  <2> QED
    BY <2>2, <2>3
<1>3. CASE IrqBegin
  BY <1>0, <1>3, Frame DEF IrqBegin, lists, boxes
<1>4. CASE IrqEnd
  BY <1>0, <1>4, Frame DEF IrqEnd, Reschedule, boxes
<1>5. CASE SendAny
  <2>1. PICK dest \in Threads, body \in Body :
               IF isr THEN \E src \in IsrSources : Send(src, dest, body)
                      ELSE Send(current, dest, body)
    BY <1>5 DEF SendAny
  <2>2. \A src \in IsrSources : src \in Sources
    BY KernelAssumption
  <2>3. ~isr => Send(current, dest, body) /\ current \in Sources
    BY <1>0, <2>1 DEF Send, InKernel, InThread, Running, Sources
  <2> QED
    BY <2>1, <2>2, <2>3, SendStep
<1>6. ASSUME NEW src \in Sems, ReceiveFirst(src) PROVE BoxOK(t)'
  BY <1>6, FirstStep
<1>7. CASE ReceiveSecond
  BY <1>7, SecondStep
<1>8. CASE ReceiveTake
  BY <1>8, TakeStep
<1>9. CASE TakePcb
  BY <1>0, <1>9, Frame DEF TakePcb, boxes
<1>10. CASE Finish
  <2>1. /\ pc[current] = "run" /\ ring' = Without(ring, current)
        /\ current' = Schedule(ring', PrevOf(ring, current)) /\ current # Idle
        /\ UNCHANGED <<wait, pc, from, token, block, queue>>
    BY <1>10 DEF Finish, InThread, Running, boxes
  <2>2. \A y : On(ring', y) <=> On(ring, y) /\ y # current
    BY <1>0, <2>1, LeaveRing DEF ListsOK
  <2> QED
    BY <1>0, <2>1, <2>2, Frame
<1>11. ASSUME NEW u \in Threads, PlacePcb(u) PROVE BoxOK(t)'
  <2>1. /\ InitMsg(u) /\ pc' = [pc EXCEPT ![u] = "enabled"] /\ wait' = wait \cup {u}
        /\ ring' = ring /\ from' = from
    BY <1>11 DEF PlacePcb
  <2>2. CASE t = u
    <3>1. pc'[t] = "enabled"
      BY <1>0, <2>1, <2>2 DEF BoxType
    <3> QED
      BY <1>0, <2>1, <2>2, <3>1, EmptyBox
  <2>3. CASE t # u
    <3>1. token'[t] = token[t] /\ block'[t] = block[t] /\ queue'[t] = queue[t]
      BY <1>0, <2>1, <2>3, InitMsgOthers
    <3>2. pc'[t] = pc[t] /\ (t \in wait' => t \in wait)
      BY <1>0, <2>1, <2>3 DEF BoxType
    <3> QED
      BY <1>0, <2>1, <3>1, <3>2, Frame
  <2> QED
    BY <2>2, <2>3
<1>12. ASSUME NEW u \in Threads, WakeupNew(u) PROVE BoxOK(t)'
  <2>1. /\ pc[u] = "enabled" /\ UNCHANGED <<pc, from, token, block, queue>>
        /\ WakeupAll(WakeupIn([ring |-> ring, wait |-> wait], u))
    BY <1>12 DEF WakeupNew, boxes
  <2>2. /\ wait' = wait \ {u}
        /\ \A y : On(ring', y) <=> On(ring, y) \/ (y = u /\ u \in wait)
    BY <1>0, <2>1, WakeupOneLists
  <2>3. CASE t = u
    BY <1>0, <2>1, <2>2, <2>3, Quiet
  <2>4. CASE t # u
    BY <1>0, <2>1, <2>2, <2>4, Frame
  <2> QED
    BY <2>3, <2>4
<1>13. ASSUME NEW u \in Threads, ExecReset(u) PROVE BoxOK(t)'
  <2>1. /\ InitMsg(u) /\ pc' = [pc EXCEPT ![u] = "enabled"] /\ from' = from
        /\ WakeupAll(WakeupIn([ring |-> ring, wait |-> wait], u))
    BY <1>13 DEF ExecReset
  <2>2. /\ wait' = wait \ {u}
        /\ \A y : On(ring', y) <=> On(ring, y) \/ (y = u /\ u \in wait)
    BY <1>0, <2>1, WakeupOneLists
  <2>3. CASE t = u
    <3>1. pc'[t] = "enabled"
      BY <1>0, <2>1, <2>3 DEF BoxType
    <3> QED
      BY <1>0, <2>1, <2>3, <3>1, EmptyBox
  <2>4. CASE t # u
    <3>1. token'[t] = token[t] /\ block'[t] = block[t] /\ queue'[t] = queue[t]
      BY <1>0, <2>1, <2>4, InitMsgOthers
    <3>2. pc'[t] = pc[t]
      BY <1>0, <2>1, <2>4 DEF BoxType
    <3> QED
      BY <1>0, <2>1, <2>2, <2>4, <3>1, <3>2, Frame
  <2> QED
    BY <2>3, <2>4
<1>14. ASSUME NEW u \in Threads, ReleasePcb(u) PROVE BoxOK(t)'
  BY <1>0, <1>14, Frame DEF ReleasePcb, boxes
<1>15. CASE UNCHANGED vars
  BY <1>0, <1>15, Frame DEF vars, lists, boxes
<1> QED
  BY <1>1, <1>2, <1>3, <1>4, <1>5, <1>6, <1>7, <1>8, <1>9, <1>10, <1>11, <1>12,
     <1>13, <1>14, <1>15 DEF Next

(* The inductive invariant holds in every state of the kernel. *)
THEOREM BoxesHold == Spec => []IInv
<1>1. Init => IInv
  BY InitKeeps, InitBoxes DEF IInv
<1>2. IInv /\ [Next]_vars => IInv'
  <2>1. IInv /\ [Next]_vars => LInv'
    BY NextKeeps DEF IInv
  <2>2. IInv /\ [Next]_vars => (\A t \in Threads : BoxOK(t))'
    BY NextBoxes
  <2> QED
    BY <2>1, <2>2 DEF IInv
<1> QED
  BY <1>1, <1>2, PTL DEF Spec

(* any_sem and pid_sem never drift from the message queue: for any number of
   threads, sources and message nodes, and any interleaving with interrupts. *)
THEOREM TokensAgree == Spec => []TokensCountMessages
<1>1. IInv => TokensCountMessages
  BY DEF IInv, BoxOK, Tokens, TokensCountMessages
<1> QED
  BY <1>1, BoxesHold, PTL

(* The assertion of V() never fails, and no thread is left in a blocking queue. *)
THEOREM VNeverAsserts == Spec => []BlockedIffNegative
<1>1. IInv => BlockedIffNegative
  BY DEF IInv, BoxOK, Blocks, BlockedIffNegative
<1> QED
  BY <1>1, BoxesHold, PTL

(* No wakeup is lost: a thread that sleeps in receive() has no message that it
   asked for. *)
THEOREM WakeupsAreNotLost == Spec => []NoLostWakeup
<1>1. IInv => NoLostWakeup
  <2> SUFFICES ASSUME IInv, NEW t \in Threads
               PROVE  /\ t \in wait /\ pc[t] # "enabled" =>
                           pc[t] = "second" /\ Arrived(t, from[t]) = 0
                      /\ InRing(t) => \A s \in Sems : block[t][s] = <<>>
    BY DEF NoLostWakeup
  <2>1. BoxType /\ BoxOK(t) /\ from[t] \in Sems
    BY DEF IInv, LInv, BoxType
  <2>2. ASSUME t \in wait, pc[t] # "enabled"
        PROVE  pc[t] = "second" /\ Arrived(t, from[t]) = 0
    <3>1. pc[t] = "second" /\ token[t][from[t]] < 0
      BY <2>1, <2>2 DEF BoxOK, Rests
    <3>2. Owes(t, from[t])
      BY <3>1 DEF Owes
    <3>3. token[t][from[t]] = Arrived(t, from[t]) - 1 /\ Arrived(t, from[t]) \in Nat
      BY <2>1, <3>2, TokenBounds, ArrivedType DEF BoxOK
    <3> QED
      BY <3>1, <3>3
  <2>3. ASSUME InRing(t), NEW s \in Sems PROVE block[t][s] = <<>>
    <3>1. token[t][s] >= 0 /\ token[t][s] \in Int
      BY <2>1, <2>3, ArrivedType DEF BoxOK, Rests
    <3>2. ~(token[t][s] < 0)
      BY <3>1
    <3> QED
      BY <2>1, <3>2 DEF BoxOK, Blocks
  <2> QED
    BY <2>2, <2>3
<1> QED
  BY <1>1, BoxesHold, PTL

(* A receive() past its first P() cannot block and finds the message it claimed:
   its assertion msg != NULL holds, and the search ends on a message of src. *)
THEOREM ReceivesComplete == Spec => []ReceiveCompletes
<1>1. IInv => ReceiveCompletes
  <2> SUFFICES ASSUME IInv, NEW t \in Threads, InRing(t)
               PROVE  /\ pc[t] = "second" =>
                           /\ queue[t] # <<>>
                           /\ token[t][IF from[t] = ANY THEN Head(queue[t]).src ELSE ANY] > 0
                      /\ pc[t] = "take" =>
                           /\ queue[t] # <<>>
                           /\ from[t] # ANY => queue[t][Found(queue[t], from[t])].src = from[t]
    BY DEF ReceiveCompletes
  <2>1. BoxType /\ BoxOK(t) /\ from[t] \in Sems /\ queue[t] \in Seq(Msgs)
    BY DEF IInv, LInv, BoxType
  <2>2. pc[t] = "second" =>
          /\ queue[t] # <<>>
          /\ token[t][IF from[t] = ANY THEN Head(queue[t]).src ELSE ANY] > 0
    BY <2>1, SecondReady
  <2>3. pc[t] = "take" =>
          /\ queue[t] # <<>>
          /\ from[t] # ANY => \E i \in 1..Len(queue[t]) : queue[t][i].src = from[t]
    BY <2>1, TakeReady
  <2>4. pc[t] = "take" /\ from[t] # ANY => queue[t][Found(queue[t], from[t])].src = from[t]
    BY <2>1, <2>3, FoundProperties
  <2> QED
    BY <2>2, <2>3, <2>4
<1> QED
  BY <1>1, BoxesHold, PTL
-----------------------------------------------------------------------------
(* Module Kernel implements module Mailbox, for every value of the constants:
   under the mapping of Kernel (box is msg_queue, asking is the src of a
   receive() in progress) each step of the kernel is a step of the abstract boxes
   or leaves them alone. *)

\* What the mapping gives to asking.
Asking == [t \in Threads |-> IF pc[t] \in {"second", "take"} THEN from[t] ELSE Idle]

(* A step that moves no thread into or out of receive(), and no message. *)
LEMMA AskingSame ==
  ASSUME BoxType, BoxType', \A t \in Threads : (pc'[t] = pc[t] /\ from'[t] = from[t])
                                     \/ /\ pc[t] \notin {"second", "take"}
                                        /\ pc'[t] \notin {"second", "take"}
  PROVE  Asking' = Asking
BY DEF Asking

(* One thread begins or ends a receive(). *)
LEMMA AskingOne ==
  ASSUME NEW c \in Threads, NEW v,
         \A t \in Threads \ {c} : (pc'[t] = pc[t] /\ from'[t] = from[t]),
         v = IF pc'[c] \in {"second", "take"} THEN from'[c] ELSE Idle
  PROVE  Asking' = [Asking EXCEPT ![c] = v]
BY DEF Asking

(* The messages after the one taken move up by one. *)
LEMMA RemoveAtIsFunction ==
  ASSUME NEW q \in Seq(Msgs), NEW k \in 1..Len(q)
  PROVE  RemoveAt(q, k) = [j \in 1..(Len(q) - 1) |-> IF j < k THEN q[j] ELSE q[j + 1]]
<1> DEFINE r == RemoveAt(q, k)
<1>1. /\ r \in Seq(Msgs) /\ Len(r) = Len(q) - 1
      /\ \A j \in 1..(Len(q) - 1) : r[j] = IF j < k THEN q[j] ELSE q[j + 1]
  BY RemoveAtProperties
<1> HIDE DEF r
<1>2. r = [j \in 1..Len(r) |-> r[j]]
  BY <1>1
<1>3. r = [j \in 1..(Len(q) - 1) |-> IF j < k THEN q[j] ELSE q[j + 1]]
  BY <1>1, <1>2
<1> QED
  BY <1>3 DEF r

(* Steps of the kernel are steps of the boxes. *)
LEMMA StepImplements ==
  ASSUME IInv, IInv', [Next]_vars
  PROVE  [Box!MNext]_(Box!mvars)
<1>0. /\ LInv /\ BoxType /\ BoxType' /\ InRing(current)
      /\ (current # Idle => current \in Threads /\ BoxOK(current))
  BY DEF IInv, LInv, ListsOK, RingOK, Nodes, InRing
<1>1. ASSUME queue' = queue, Asking' = Asking PROVE UNCHANGED Box!mvars
  BY <1>1 DEF Box!mvars, Asking
<1>2. CASE Enter
  <2>1. queue' = queue /\ from' = from
    BY <1>2 DEF Enter, boxes
  <2>2. Asking' = Asking
    BY <1>0, <1>2, AskingSame DEF Enter, Running, BoxType
  <2> QED
    BY <1>1, <2>1, <2>2
<1>3. CASE SyscallReturn
  <2>1. queue' = queue /\ from' = from
    BY <1>3 DEF SyscallReturn, boxes
  <2>2. Asking' = Asking
    BY <1>0, <1>3, AskingSame DEF SyscallReturn, InThread, Running, BoxType
  <2> QED
    BY <1>1, <2>1, <2>2
<1>4. CASE \/ IrqBegin \/ IrqEnd \/ TakePcb \/ Finish \/ UNCHANGED vars
           \/ \E t \in Threads : WakeupNew(t) \/ ReleasePcb(t)
  <2>1. queue' = queue /\ from' = from /\ pc' = pc
    BY <1>4 DEF IrqBegin, IrqEnd, TakePcb, Finish, WakeupNew, ReleasePcb, boxes, vars
  <2>2. Asking' = Asking
    BY <2>1 DEF Asking
  <2> QED
    BY <1>1, <2>1, <2>2
<1>5. ASSUME NEW src \in Sources, NEW dest \in Threads, NEW body \in Body,
             Send(src, dest, body)
      PROVE  [Box!MNext]_(Box!mvars)
  <2>1. from' = from /\ pc' = pc
    BY <1>5 DEF Send, Halt
  <2>2. Asking' = Asking
    BY <2>1 DEF Asking
  <2>3. CASE queue' = queue
    BY <1>1, <2>2, <2>3
  <2>4. CASE queue' = [queue EXCEPT ![dest] = Append(@, [src |-> src, body |-> body])]
    BY <2>2, <2>4 DEF Box!MNext, Box!Deposit, Asking
  <2> QED
    BY <1>5, <2>3, <2>4 DEF Send, Halt, boxes
<1>6. CASE SendAny
  <2>1. PICK dest \in Threads, body \in Body :
               IF isr THEN \E src \in IsrSources : Send(src, dest, body)
                      ELSE Send(current, dest, body)
    BY <1>6 DEF SendAny
  <2>2. \A src \in IsrSources : src \in Sources
    BY KernelAssumption
  <2>3. ~isr => Send(current, dest, body) /\ current \in Sources
    BY <1>0, <2>1 DEF Send, InKernel, InThread, Running, Sources
  <2> QED
    BY <1>5, <2>1, <2>2, <2>3
<1>7. ASSUME NEW src \in Sems, ReceiveFirst(src) PROVE [Box!MNext]_(Box!mvars)
  <2>1. /\ current \in Threads /\ pc[current] = "run" /\ queue' = queue
        /\ pc' = [pc EXCEPT ![current] = "second"]
        /\ from' = [from EXCEPT ![current] = src]
    BY <1>0, <1>7 DEF ReceiveFirst, InThread, Running, P
  <2>2. pc'[current] = "second" /\ from'[current] = src
    BY <1>0, <2>1 DEF BoxType
  <2>3. \A t \in Threads \ {current} : pc'[t] = pc[t] /\ from'[t] = from[t]
    BY <1>0, <2>1 DEF BoxType
  <2>4. Asking' = [Asking EXCEPT ![current] = src]
    BY <2>1, <2>2, <2>3, AskingOne
  <2>5. Asking[current] = Idle
    BY <2>1 DEF Asking
  <2>6. src \in Sources \cup {ANY}
    BY DEF Sems
  <2> QED
    BY <2>1, <2>4, <2>5, <2>6 DEF Box!MNext, Box!Ask, Asking
<1>8. CASE ReceiveSecond
  <2>1. current \in Threads /\ pc[current] = "second" /\ queue' = queue /\ from' = from
        /\ (pc' = pc \/ pc' = [pc EXCEPT ![current] = "take"])
    BY <1>0, <1>8 DEF ReceiveSecond, Running, Halt, boxes, P
  <2>2. Asking' = Asking
    BY <1>0, <2>1 DEF Asking, BoxType
  <2> QED
    BY <1>1, <2>1, <2>2
<1>9. CASE ReceiveTake
  <2> DEFINE c == current
             q == queue[c]
             k == Found(q, from[c])
  <2>1. c \in Threads /\ pc[c] = "take" /\ q \in Seq(Msgs) /\ from[c] \in Sems
    BY <1>0, <1>9 DEF ReceiveTake, Running, BoxType
  <2>2. q # <<>> /\ (from[c] # ANY => \E i \in 1..Len(q) : q[i].src = from[c])
    BY <1>0, <2>1, TakeReady, KernelAssumption
  <2>3. /\ queue' = [queue EXCEPT ![c] = RemoveAt(q, k)]
        /\ pc' = [pc EXCEPT ![c] = "run"]
        /\ from' = [from EXCEPT ![c] = ANY]
    BY <1>9, <2>2 DEF ReceiveTake
  <2>4. /\ k \in 1..Len(q)
        /\ from[c] = ANY => k = 1
        /\ from[c] # ANY => q[k].src = from[c] /\ \A j \in 1..(k - 1) : q[j].src # from[c]
    BY <2>1, <2>2, FoundProperties
  <2>5. RemoveAt(q, k) = [j \in 1..(Len(q) - 1) |-> IF j < k THEN q[j] ELSE q[j + 1]]
    BY <2>1, <2>4, RemoveAtIsFunction
  <2>6. pc'[c] = "run" /\ \A t \in Threads \ {c} : pc'[t] = pc[t] /\ from'[t] = from[t]
    BY <1>0, <2>1, <2>3 DEF BoxType
  <2>7. Asking' = [Asking EXCEPT ![c] = Idle]
    BY <2>1, <2>6, AskingOne
  <2>8. Asking[c] = from[c] /\ from[c] # Idle
    BY <2>1, KernelAssumption DEF Asking, Sems, Sources
  <2> HIDE DEF k
  <2>9. /\ Box!Matches(q[k], Asking[c])
        /\ \A j \in 1..(k - 1) : ~Box!Matches(q[j], Asking[c])
    BY <2>4, <2>8 DEF Box!Matches
  <2>10. queue' = [queue EXCEPT ![c] = [j \in 1..(Len(@) - 1) |-> IF j < k THEN @[j] ELSE @[j + 1]]]
    BY <2>3, <2>5
  <2>11. PICK t \in Threads : t = c
    BY <2>1
  <2>12. Box!Obtain(t)
    BY <2>4, <2>7, <2>8, <2>9, <2>10, <2>11 DEF Box!Obtain, Asking
  <2> QED
    BY <2>12 DEF Box!MNext
<1>10. ASSUME NEW u \in Threads, PlacePcb(u) \/ ExecReset(u) PROVE [Box!MNext]_(Box!mvars)
  <2>1. /\ pc' = [pc EXCEPT ![u] = "enabled"] /\ from' = from
        /\ queue' = [queue EXCEPT ![u] = <<>>]
    BY <1>10 DEF PlacePcb, ExecReset, InitMsg
  <2>2. pc'[u] = "enabled" /\ \A t \in Threads \ {u} : pc'[t] = pc[t] /\ from'[t] = from[t]
    BY <1>0, <2>1 DEF BoxType
  <2>3. Asking' = [Asking EXCEPT ![u] = Idle]
    BY <2>2, AskingOne
  <2> QED
    BY <2>1, <2>3 DEF Box!MNext, Box!Renew, Asking
<1> QED
  BY <1>2, <1>3, <1>4, <1>6, <1>7, <1>8, <1>9, <1>10 DEF Next

(* send() and receive() implement the abstract boxes: every message is received
   at most once, in the order of sending among those that match. *)
THEOREM KernelImplementsMailbox == Spec => ImplementsMailbox
<1>1. Init => Box!MInit
  BY DEF Init, Box!MInit
<1>2. IInv /\ IInv' /\ [Next]_vars => [Box!MNext]_(Box!mvars)
  BY StepImplements
<1> QED
  BY <1>1, <1>2, BoxesHold, PTL DEF Spec, ImplementsMailbox, Box!MSpec

-----------------------------------------------------------------------------
(* Who asks whom, for what, in which program. *)

\* The callers of a server; no two servers call each other, at any distance.
CanCall(t, s) ==
  \/ t = FILE /\ s \in {RAM, TTY}
  \/ t = MEMORY /\ s = FILE
  \/ t = PCB_MANAGER /\ s \in {MEMORY, FILE}
  \/ t \in Gettys /\ s = TTY
  \/ t \in Processes /\ s \in {FILE, TIMER, PCB_MANAGER}

\* b is the body of a request that s understands.
Request(s, b) ==
  \/ s = RAM /\ b.type = "io"
  \/ s = TIMER /\ b.type = "sleep"
  \/ s = TTY /\ b.type \in {"read", "write"}
  \/ s = FILE /\ b.type \in {"io", "closed", "readline", "puts", "fd_table"}
  \/ s = MEMORY /\ b.type \in {"load", "copy", "unmap"}
  \/ /\ s = PCB_MANAGER /\ b.type \in {"create", "fork", "exec", "exit", "wait"}
     /\ b.type = "wait" => b.arg \in Threads

\* A message in the box of t: from an interrupt, a request, or an answer.
MsgOK(t, m) ==
  \/ m.src = Intr /\ t = TTY /\ m.body.type \in {"key", "update"}
  \/ CanCall(m.src, t) /\ Request(t, m.body)
  \/ CanCall(t, m.src) /\ m.body.type = "reply"

BoxesOK == \A t \in Threads : \A i \in 1..Len(queue[t]) : MsgOK(t, queue[t][i])

\* The operations of a server that use up its job.
Answering == {"reply", "reply_child", "restart", "release", "waitpid", "ignore", "read",
              "add_time_event"}
\* The operations after which it is back at its receive(ANY).
Ending == Answering \cup {"key", "update"}
\* The operations without arguments.
Plain == Ending \cup {"take", "place", "wakeup_new", "wakeup", "finish"}

Ops == {<<x>> : x \in Plain} \cup ({"receive", "wakeup", "notify"} \X (Threads \cup {None}))
       \cup ({"send"} \X Threads \X Body)

OpOK(t, op) ==
  \/ op[1] = "send" /\ CanCall(t, op[2]) /\ op[3] \in Body /\ Request(op[2], op[3])
  \/ op[1] = "receive" /\ CanCall(t, op[2])
  \/ op[1] = "reply" /\ t \in Servers
  \/ op[1] \in {"read", "key", "update"} /\ t = TTY
  \/ op[1] = "ignore" /\ t = FILE
  \/ op[1] = "add_time_event" /\ t = TIMER
  \/ /\ op[1] \in {"take", "place", "wakeup_new", "reply_child", "restart", "release", "waitpid"}
     /\ t = PCB_MANAGER
  \/ op[1] \in {"wakeup", "finish"} /\ t \in Processes

\* What thread t may still have to do: after a send() the receive() from the
\* same server; nothing after the operation that ends a job.
Prog(t, p) ==
  /\ p \in Seq(Ops)
  /\ \A i \in 1..Len(p) :
       /\ OpOK(t, p[i])
       /\ p[i][1] = "send" => i < Len(p) /\ p[i + 1] = <<"receive", p[i][2]>>
       /\ p[i][1] \in Ending => i = Len(p)

\* exit() has still to tell parent p.
Notify(p) == << <<"notify", p>> >>
Notifies(t, p) == t = PCB_MANAGER /\ p \in Processes /\ todo[t] = Notify(p)

\* Some operation of p has the name x.
Uses(p, x) == \E i \in 1..Len(p) : p[i][1] = x
\* p does not end the job.
Open(p) == \A x \in Ending : ~Uses(p, x)

\* A server that has still to answer knows whom, and waitpid() for which child.
JobKnown(s) ==
  /\ \A x \in Answering : Uses(todo[s], x) => job[s] \in Threads
  /\ Uses(todo[s], "waitpid") => arg[s] \in Threads

ProgsOK ==
  /\ \A t \in Threads : Prog(t, todo[t]) \/ \E p \in Processes : Notifies(t, p)
  /\ \A s \in Servers : JobKnown(s)
-----------------------------------------------------------------------------
(* Where threads and PCBs are. *)

Gone(t) == On(free, t) \/ t \in held

\* Interrupts off, one CPU.
RunsAlone == \A t \in Threads : ~Gone(t) /\ pc[t] \in {"run", "take"} => t = current /\ ~isr

\* The servers and gettys of init_proc() never become user processes or free.
KernelThreads == \A t \in Servers \cup Gettys : t \notin user /\ ~Gone(t)

ReceivesOK ==
  \A t \in Threads : pc[t] \in {"second", "take"} =>
    IF from[t] = ANY THEN t \in Servers ELSE CanCall(t, from[t])

UsedOK == \A t \in Threads : is_used[t] <=> ~Gone(t)

\* The parent that is_used child c owes an answer to.
Waited(c) == is_used[c] /\ parent_wait[c]

JobType ==
  /\ job \in [Servers -> Sources \cup {None}]
  /\ arg \in [Servers -> Threads \cup {None}]
  /\ \A s \in Servers : job[s] \in Threads => CanCall(job[s], s)

DriverType ==
  /\ rstk \in [Consoles -> Seq(Consoles)] /\ lines \in [Consoles -> Nat]
  /\ \A c \in Consoles : Len(rstk[c]) <= 1 /\ (rstk[c] # <<>> => rstk[c][1] = c)
  /\ sleepers \subseteq Processes
  /\ pending \subseteq {<<Intr, TTY, M(u, None)>> : u \in {"key", "update"}}
                         \cup {<<TIMER, t, M("reply", None)>> : t \in Processes}

ProcType ==
  /\ new \in Threads \cup {None}
  /\ ppid \in [Threads -> Threads]
  /\ is_used \in [Threads -> BOOLEAN] /\ parent_wait \in [Threads -> BOOLEAN]
  /\ \A c \in Threads : Waited(c) => ppid[c] \in Processes
  /\ \A c, d \in Threads : Waited(c) /\ Waited(d) /\ ppid[c] = ppid[d] => c = d

PTypeOK == todo \in [Threads -> Seq(Ops)] /\ JobType /\ DriverType /\ ProcType
-----------------------------------------------------------------------------
(* The way of a request of t to s and of its answer. *)

From(q, x) == \E i \in 1..Len(q) : q[i].src = x
Once(q, x) == \A i, j \in 1..Len(q) : q[i].src = x /\ q[j].src = x => i = j

\* Where t stands in the receive() that follows its request.
AtReceive(t, s) ==
  t = current /\ pc[t] = "run" /\ todo[t] # <<>> /\ todo[t][1] = <<"receive", s>>
InFirst(t, s) == ~Gone(t) /\ pc[t] = "second" /\ from[t] = s
Taking(t, s) == ~Gone(t) /\ pc[t] = "take" /\ from[t] = s

\* Where the request is.
Asked(t, s) == From(queue[s], t)
Served(t, s) == job[s] = t
Kept(t, s) ==
  \/ s = TTY /\ rstk[t] # <<>>
  \/ s = TIMER /\ t \in sleepers
  \/ s = PCB_MANAGER /\ \E c \in Threads : Waited(c) /\ ppid[c] = t
Returned(t, s) ==
  \/ s = TIMER /\ <<TIMER, t, M("reply", None)>> \in pending
  \/ s = PCB_MANAGER /\ todo[s] = Notify(t)
Replied(t, s) == From(queue[t], s)

\* At most one message between the two in each box.
Single(t, s) == Once(queue[s], t) /\ Once(queue[t], s)

\* No request of t to s is under way.
Silent(t, s) ==
  ~Asked(t, s) /\ ~Served(t, s) /\ ~Kept(t, s) /\ ~Returned(t, s) /\ ~Replied(t, s)

Pair(t, s) ==
  /\ Single(t, s)
  /\ Asked(t, s) => AtReceive(t, s) \/ InFirst(t, s)
  /\ Served(t, s) \/ Kept(t, s) \/ Returned(t, s) => InFirst(t, s)
  /\ Replied(t, s) => InFirst(t, s) \/ Taking(t, s)
  /\ Asked(t, s) => ~Served(t, s) /\ ~Kept(t, s) /\ ~Returned(t, s) /\ ~Replied(t, s)
  /\ Served(t, s) => ~Kept(t, s) /\ ~Returned(t, s) /\ ~Replied(t, s)
  /\ Kept(t, s) => ~Returned(t, s) /\ ~Replied(t, s)
  /\ Returned(t, s) => ~Replied(t, s)

Pairs == \A t \in Threads, s \in Servers : CanCall(t, s) => Pair(t, s)

ProtoInv ==
  /\ IInv /\ PTypeOK /\ ProgsOK /\ BoxesOK
  /\ RunsAlone /\ KernelThreads /\ ReceivesOK /\ UsedOK /\ Pairs
-----------------------------------------------------------------------------
(* Constants. *)

(* The six servers are different threads, and no getty or process is one. *)
LEMMA ServersApart ==
  /\ TIMER # TTY /\ TIMER # RAM /\ TIMER # FILE /\ TIMER # MEMORY /\ TIMER # PCB_MANAGER
  /\ TTY # RAM /\ TTY # FILE /\ TTY # MEMORY /\ TTY # PCB_MANAGER
  /\ RAM # FILE /\ RAM # MEMORY /\ RAM # PCB_MANAGER
  /\ FILE # MEMORY /\ FILE # PCB_MANAGER /\ MEMORY # PCB_MANAGER
<1> DEFINE l == <<TIMER, TTY, RAM, FILE, MEMORY, PCB_MANAGER>>
<1>1. Distinct(l)
  BY ServicesAssumption
<1>2. /\ Len(l) = 6 /\ l[1] = TIMER /\ l[2] = TTY /\ l[3] = RAM
      /\ l[4] = FILE /\ l[5] = MEMORY /\ l[6] = PCB_MANAGER
  OBVIOUS
<1> HIDE DEF l
<1>3. \A i, j \in 1..6 : l[i] = l[j] => i = j
  BY <1>1, <1>2 DEF Distinct
<1> QED
  BY <1>2, <1>3

(* Servers, gettys and processes share the threads out between them. *)
LEMMA Kinds ==
  /\ Servers \subseteq Threads /\ Gettys \subseteq Threads /\ Processes \subseteq Threads
  /\ \A t \in Threads : t \in Servers \/ t \in Gettys \/ t \in Processes
  /\ \A t : t \in Servers => t \notin Gettys /\ t \notin Processes
  /\ \A t : t \in Gettys => t \notin Processes
  /\ create_shell \in Processes /\ Consoles \subseteq Threads
  /\ TIMER \in Servers /\ TTY \in Servers /\ RAM \in Servers /\ FILE \in Servers
  /\ MEMORY \in Servers /\ PCB_MANAGER \in Servers
BY ServicesAssumption DEF Processes, Servers, Consoles

(* Only a client calls, only a server is called. *)
LEMMA CallTypes ==
  ASSUME NEW t, NEW s, CanCall(t, s)
  PROVE  /\ t \in Threads /\ s \in Servers /\ s \in Threads /\ t # s
         /\ s # ANY /\ t # ANY /\ s # Intr /\ t # Intr /\ s # None /\ t # None
<1>1. t \in Threads /\ s \in Servers /\ s \in Threads
  BY Kinds DEF CanCall
<1>2. t # s
  BY Kinds, ServersApart DEF CanCall
<1> QED
  BY <1>1, <1>2, KernelAssumption DEF None, Sources

(* Nobody calls back. *)
LEMMA NoCallBack ==
  ASSUME NEW t, NEW s, CanCall(t, s)
  PROVE  ~CanCall(s, t)
<1>1. s \in Servers
  BY CallTypes
<1> QED
  BY <1>1, Kinds, ServersApart, Zenon DEF CanCall

(* The readers of terminals are the consoles; the rest of the servers that
   answer later have processes for clients. *)
LEMMA Callers ==
  /\ \A t : CanCall(t, TTY) <=> t \in Consoles
  /\ \A t : CanCall(t, TIMER) <=> t \in Processes
  /\ \A t : CanCall(t, PCB_MANAGER) <=> t \in Processes
<1>1. \A t : CanCall(t, TTY) <=> t \in Consoles
  BY Kinds, ServersApart DEF CanCall, Consoles
<1>2. \A t : CanCall(t, TIMER) <=> t \in Processes
  BY Kinds, ServersApart DEF CanCall
<1>3. \A t : CanCall(t, PCB_MANAGER) <=> t \in Processes
  BY Kinds, ServersApart DEF CanCall
<1> QED
  BY <1>1, <1>2, <1>3

(* A request is not an answer. *)
LEMMA RequestTypes ==
  ASSUME NEW s, NEW b, Request(s, b)
  PROVE  b.type # "reply"
BY DEF Request

(* The bodies of messages. *)
LEMMA Bodies ==
  /\ \A b \in Body : b.type \in MsgTypes /\ b.arg \in Threads \cup {None}
  /\ \A x \in MsgTypes, a \in Threads \cup {None} :
       /\ M(x, a) \in Body /\ M(x, a).type = x /\ M(x, a).arg = a
BY ServicesAssumption DEF M
-----------------------------------------------------------------------------
(* Boxes. *)

(* A message is added to a box. *)
LEMMA FromAppend ==
  ASSUME NEW q \in Seq(Msgs), NEW m \in Msgs
  PROVE  /\ \A x : From(Append(q, m), x) <=> From(q, x) \/ m.src = x
         /\ \A x : Once(q, x) /\ (m.src = x => ~From(q, x)) => Once(Append(q, m), x)
<1> DEFINE r == Append(q, m)
           n == Len(q)
<1>1. /\ n \in Nat /\ Len(r) = n + 1 /\ r[n + 1] = m
      /\ \A i \in 1..n : r[i] = q[i]
  OBVIOUS
<1>2. \A i \in 1..(n + 1) : i \in 1..n \/ i = n + 1
  BY <1>1
<1> HIDE DEF r
<1>3. ASSUME NEW x PROVE From(r, x) <=> From(q, x) \/ m.src = x
  BY <1>1, <1>2 DEF From, n
<1>4. ASSUME NEW x, Once(q, x), m.src = x => ~From(q, x) PROVE Once(r, x)
  BY <1>1, <1>2, <1>4 DEF From, Once, n
<1> QED
  BY <1>3, <1>4 DEF r

(* A message is taken out of a box. *)
LEMMA FromRemove ==
  ASSUME NEW q \in Seq(Msgs), NEW k \in 1..Len(q)
  PROVE  /\ \A x : From(RemoveAt(q, k), x) => From(q, x)
         /\ \A x : Once(q, x) => Once(RemoveAt(q, k), x)
         /\ Once(q, q[k].src) => ~From(RemoveAt(q, k), q[k].src)
         /\ \A i \in 1..Len(RemoveAt(q, k)) : \E j \in 1..Len(q) : RemoveAt(q, k)[i] = q[j]
<1> DEFINE r == RemoveAt(q, k)
           n == Len(q)
<1>0. /\ r \in Seq(Msgs) /\ Len(r) = Len(q) - 1
      /\ \A j \in 1..(Len(q) - 1) : r[j] = IF j < k THEN q[j] ELSE q[j + 1]
  BY RemoveAtProperties
<1>1. /\ n \in Nat /\ Len(r) = n - 1 /\ k \in 1..n
      /\ \A j \in 1..(n - 1) : r[j] = IF j < k THEN q[j] ELSE q[j + 1]
  BY <1>0
<1> HIDE DEF r
<1>2. \A j \in 1..(n - 1) : \E i \in 1..n : i # k /\ r[j] = q[i] /\ i = (IF j < k THEN j ELSE j + 1)
  BY <1>1
<1>3. ASSUME NEW x PROVE From(r, x) => From(q, x)
  BY <1>1, <1>2 DEF From, n
<1>4. ASSUME NEW x, Once(q, x) PROVE Once(r, x)
  <2> SUFFICES ASSUME NEW i \in 1..(n - 1), NEW j \in 1..(n - 1), r[i].src = x, r[j].src = x
               PROVE  i = j
    BY <1>1 DEF Once
  <2>1. PICK a \in 1..n : r[i] = q[a] /\ a = (IF i < k THEN i ELSE i + 1)
    BY <1>2
  <2>2. PICK b \in 1..n : r[j] = q[b] /\ b = (IF j < k THEN j ELSE j + 1)
    BY <1>2
  <2>3. a = b
    BY <1>4, <2>1, <2>2 DEF Once
  <2> QED
    BY <1>1, <2>1, <2>2, <2>3
<1>5. ASSUME Once(q, q[k].src) PROVE ~From(r, q[k].src)
  BY <1>1, <1>2, <1>5 DEF From, Once, n
<1>6. \A i \in 1..Len(r) : \E j \in 1..Len(q) : r[i] = q[j]
  BY <1>1, <1>2
<1> QED
  BY <1>3, <1>4, <1>5, <1>6 DEF r
-----------------------------------------------------------------------------
(* Programs. *)

(* Nothing to do is a program. *)
LEMMA ProgEmpty == \A t : Prog(t, <<>>)
BY DEF Prog

(* What is left after the first operation is a program. *)
LEMMA ProgTail ==
  ASSUME NEW t, NEW p, Prog(t, p), p # <<>>
  PROVE  /\ Prog(t, Tail(p)) /\ OpOK(t, p[1]) /\ p[1] \in Ops /\ Head(p) = p[1]
         /\ Len(p) \in Nat /\ Len(p) > 0 /\ Len(Tail(p)) = Len(p) - 1
         /\ \A i \in 1..Len(Tail(p)) : Tail(p)[i] = p[i + 1] /\ i + 1 \in 1..Len(p)
         /\ p[1][1] = "send" => Tail(p) # <<>> /\ Tail(p)[1] = <<"receive", p[1][2]>>
         /\ p[1][1] \in Ending => Tail(p) = <<>>
<1> DEFINE r == Tail(p)
           n == Len(p)
<1>1. p \in Seq(Ops) /\ n \in Nat /\ n > 0 /\ Head(p) = p[1]
  BY DEF Prog
<1>2. r \in Seq(Ops) /\ Len(r) = n - 1 /\ \A i \in 1..(n - 1) : r[i] = p[i + 1]
  BY <1>1
<1>3. /\ \A i \in 1..n : OpOK(t, p[i])
      /\ \A i \in 1..n : p[i][1] = "send" => i < n /\ p[i + 1] = <<"receive", p[i][2]>>
      /\ \A i \in 1..n : p[i][1] \in Ending => i = n
  BY DEF Prog
<1>4. OpOK(t, p[1]) /\ p[1] \in Ops
  BY <1>1, <1>3
<1> HIDE DEF r
<1>5. ASSUME NEW i \in 1..Len(r)
      PROVE  /\ OpOK(t, r[i])
             /\ r[i][1] = "send" => i < Len(r) /\ r[i + 1] = <<"receive", r[i][2]>>
             /\ r[i][1] \in Ending => i = Len(r)
  <2>1. i + 1 \in 1..n /\ r[i] = p[i + 1] /\ i \in Int /\ i >= 1 /\ i <= n - 1
    BY <1>1, <1>2
  <2>2. OpOK(t, r[i])
    BY <1>3, <2>1
  <2>3. r[i][1] \in Ending => i = Len(r)
    BY <1>1, <1>2, <1>3, <2>1
  <2>4. ASSUME r[i][1] = "send" PROVE i < Len(r) /\ r[i + 1] = <<"receive", r[i][2]>>
    <3>1. i + 1 < n /\ p[i + 1 + 1] = <<"receive", p[i + 1][2]>>
      BY <1>3, <2>1, <2>4
    <3>2. i + 1 \in 1..(n - 1)
      BY <1>1, <2>1, <3>1
    <3> QED
      BY <1>1, <1>2, <2>1, <3>1, <3>2, SMTT(60)
  <2> QED
    BY <2>2, <2>3, <2>4
<1>6. Prog(t, r)
  BY <1>2, <1>5 DEF Prog
<1>7. p[1][1] = "send" => r # <<>> /\ r[1] = <<"receive", p[1][2]>>
  <2> SUFFICES ASSUME p[1][1] = "send" PROVE r # <<>> /\ r[1] = <<"receive", p[1][2]>>
    OBVIOUS
  <2>1. 1 < n /\ p[1 + 1] = <<"receive", p[1][2]>>
    BY <1>1, <1>3
  <2> QED
    BY <1>1, <1>2, <2>1
<1>8. p[1][1] \in Ending => r = <<>>
  BY <1>1, <1>2, <1>3
<1> QED
  BY <1>1, <1>2, <1>4, <1>6, <1>7, <1>8 DEF r

(* One operation that is neither send() nor receive(). *)
LEMMA ProgOne ==
  ASSUME NEW t, NEW op \in Ops, OpOK(t, op), op[1] # "send"
  PROVE  Prog(t, <<op>>) /\ Len(<<op>>) = 1 /\ <<op>>[1] = op
BY DEF Prog

(* Two programs one after the other. *)
LEMMA ProgConcat ==
  ASSUME NEW t, NEW a, NEW b, Prog(t, a), Open(a), Prog(t, b)
  PROVE  Prog(t, a \o b) /\ \A x : Uses(a \o b, x) <=> Uses(a, x) \/ Uses(b, x)
<1> DEFINE r == a \o b
           m == Len(a)
           n == Len(b)
<1>1. a \in Seq(Ops) /\ b \in Seq(Ops) /\ m \in Nat /\ n \in Nat
  BY DEF Prog
<1>2. /\ r \in Seq(Ops) /\ Len(r) = m + n
      /\ \A i \in 1..(m + n) : r[i] = IF i <= m THEN a[i] ELSE b[i - m]
  BY <1>1, ConcatProperties
<1> HIDE DEF r
<1>3. \A i \in 1..m : i \in 1..(m + n) /\ r[i] = a[i]
  BY <1>1, <1>2
<1>4. \A i \in 1..n : i + m \in 1..(m + n) /\ r[i + m] = b[i]
  BY <1>1, <1>2, SMTT(60)
<1>5. \A i \in 1..(m + n) : i \in 1..m \/ i - m \in 1..n
  BY <1>1
<1>6. \A x : Uses(r, x) <=> Uses(a, x) \/ Uses(b, x)
  <2> TAKE x
  <2>1. Uses(a, x) \/ Uses(b, x) => Uses(r, x)
    BY <1>2, <1>3, <1>4, ZenonT(60) DEF Uses
  <2>2. ASSUME NEW i \in 1..Len(r), r[i][1] = x PROVE Uses(a, x) \/ Uses(b, x)
    <3>1. CASE i \in 1..m
      BY <1>3, <2>2, <3>1 DEF Uses
    <3>2. CASE i - m \in 1..n
      <4>1. i - m + m = i
        BY <1>1, <1>2
      <4>2. r[i] = b[i - m]
        BY <1>4, <3>2, <4>1
      <4> QED
        BY <2>2, <3>2, <4>2 DEF Uses
    <3> QED
      BY <1>2, <1>5, <3>1, <3>2
  <2> QED
    BY <2>1, <2>2 DEF Uses
<1>7. ASSUME NEW i \in 1..Len(r)
      PROVE  /\ OpOK(t, r[i])
             /\ r[i][1] = "send" => i < Len(r) /\ r[i + 1] = <<"receive", r[i][2]>>
             /\ r[i][1] \in Ending => i = Len(r)
  <2>1. CASE i \in 1..m
    <3>1. /\ r[i] = a[i] /\ OpOK(t, a[i])
          /\ a[i][1] = "send" => i < m /\ a[i + 1] = <<"receive", a[i][2]>>
          /\ a[i][1] \notin Ending
      BY <1>3, <2>1 DEF Prog, Open, Uses
    <3>2. a[i][1] = "send" => i + 1 \in 1..m /\ r[i + 1] = a[i + 1]
      BY <1>1, <1>3, <2>1, <3>1
    <3> QED
      BY <1>1, <1>2, <2>1, <3>1, <3>2
  <2>2. CASE i - m \in 1..n
    <3> DEFINE k == i - m
    <3>0. i \in Int /\ k \in 1..n /\ i = k + m
      BY <1>1, <1>2, <2>2
    <3> HIDE DEF k
    <3>1. /\ r[i] = b[k] /\ OpOK(t, b[k])
          /\ b[k][1] = "send" => k < n /\ b[k + 1] = <<"receive", b[k][2]>>
          /\ b[k][1] \in Ending => k = n
      BY <1>4, <3>0 DEF Prog
    <3>2. b[k][1] = "send" => r[i + 1] = b[k + 1]
      <4> SUFFICES ASSUME b[k][1] = "send" PROVE r[i + 1] = b[k + 1]
        OBVIOUS
      <4>1. k + 1 \in 1..n /\ k + 1 + m = i + 1
        BY <1>1, <3>0, <3>1
      <4> QED
        BY <1>4, <4>1
    <3>3. (k < n => i < Len(r)) /\ (k = n => i = Len(r))
      <4>1. Len(r) = m + n /\ m \in Int /\ n \in Int /\ k \in Int /\ i = k + m
        BY <1>1, <1>2, <3>0
      <4> HIDE DEF m, n
      <4> QED
        BY <4>1
    <3> QED
      BY <3>1, <3>2, <3>3
  <2> QED
    BY <1>2, <1>5, <2>1, <2>2
<1>8. Prog(t, r)
  BY <1>2, <1>7 DEF Prog
<1> QED
  BY <1>6, <1>8 DEF r

(* A call: send() and receive(). *)
LEMMA ProgCall ==
  ASSUME NEW t, NEW s, CanCall(t, s), NEW x \in MsgTypes, NEW a \in Threads \cup {None},
         Request(s, M(x, a))
  PROVE  /\ Prog(t, Call(s, x, a)) /\ Open(Call(s, x, a))
         /\ \A y : Uses(Call(s, x, a), y) => y \in {"send", "receive"}
<1> DEFINE snd == <<"send", s, M(x, a)>>
           rcv == <<"receive", s>>
           o == Call(s, x, a)
<1>0. s \in Threads /\ M(x, a) \in Body
  BY CallTypes, Bodies
<1>2. /\ snd \in Ops /\ rcv \in Ops /\ snd[1] = "send" /\ snd[2] = s
      /\ rcv[1] = "receive" /\ rcv[2] = s /\ snd[3] = M(x, a)
  BY <1>0 DEF Ops
<1>3. rcv = <<"receive", snd[2]>>
  BY <1>2
<1>4. o \in Seq(Ops) /\ Len(o) = 2 /\ o[1] = snd /\ o[2] = rcv
  BY <1>2 DEF Call
<1> HIDE DEF snd, rcv, o
<1>5. OpOK(t, snd) /\ OpOK(t, rcv)
  BY <1>0, <1>2 DEF OpOK
<1>6. \A y : Uses(o, y) => y \in {"send", "receive"}
  BY <1>2, <1>4 DEF Uses
<1>7. Open(o)
  BY <1>6 DEF Open, Ending, Answering
<1>8. Prog(t, o)
  <2> SUFFICES ASSUME NEW i \in 1..2
               PROVE  /\ OpOK(t, o[i])
                      /\ o[i][1] = "send" => i < 2 /\ o[i + 1] = <<"receive", o[i][2]>>
                      /\ o[i][1] \in Ending => i = 2
    BY <1>4 DEF Prog
  <2>1. CASE i = 1
    BY <1>2, <1>3, <1>4, <1>5, <2>1 DEF Ending, Answering
  <2>2. CASE i = 2
    BY <1>2, <1>4, <1>5, <2>2
  <2> QED
    BY <2>1, <2>2
<1> QED
  BY <1>6, <1>7, <1>8 DEF o

(* One operation without arguments. *)
LEMMA ProgPlain ==
  ASSUME NEW t, NEW x \in Plain, OpOK(t, <<x>>)
  PROVE  /\ Prog(t, << <<x>> >>) /\ \A y : Uses(<< <<x>> >>, y) <=> y = x
<1> DEFINE op == <<x>>
           l == <<op>>
<1>1. op \in Ops /\ op[1] = x /\ x # "send"
  BY DEF Ops, Plain, Ending, Answering
<1>2. OpOK(t, op)
  OBVIOUS
<1> HIDE DEF op
<1>3. Prog(t, l) /\ Len(l) = 1 /\ l[1] = op
  BY <1>1, <1>2, ProgOne
<1> HIDE DEF l
<1>4. \A y : Uses(l, y) <=> y = x
  BY <1>1, <1>3 DEF Uses
<1> QED
  BY <1>3, <1>4 DEF l, op

(* A server's program is what OpOK allows it, and only that of "wait" asks for
   the child. *)
LEMMA ProgramOK ==
  ASSUME NEW s \in Servers, NEW b \in Body, Request(s, b)
  PROVE  /\ Prog(s, Program(s, b.type))
         /\ Uses(Program(s, b.type), "waitpid") => b.arg \in Threads
<1> DEFINE x == b.type
           reply == << <<"reply">> >>
<1>1. None \in Threads \cup {None}
  OBVIOUS
<1>2. Prog(s, reply) /\ \A y : Uses(reply, y) <=> y = "reply"
  <2>1. "reply" \in Plain /\ OpOK(s, <<"reply">>)
    BY DEF Plain, Ending, Answering, OpOK
  <2> QED
    BY <2>1, ProgPlain
<1>3. ASSUME NEW u, CanCall(s, u), NEW y \in MsgTypes, Request(u, M(y, None))
      PROVE  /\ Prog(s, Call(u, y, None)) /\ Open(Call(u, y, None))
             /\ \A z : Uses(Call(u, y, None), z) => z \in {"send", "receive"}
  BY <1>1, <1>3, ProgCall
<1>4. ASSUME NEW u, CanCall(s, u), NEW y \in MsgTypes, Request(u, M(y, None))
      PROVE  /\ Prog(s, Call(u, y, None) \o reply)
             /\ ~Uses(Call(u, y, None) \o reply, "waitpid")
  <2>1. /\ Prog(s, Call(u, y, None)) /\ Open(Call(u, y, None))
        /\ ~Uses(Call(u, y, None), "waitpid")
    BY <1>3, <1>4
  <2> HIDE DEF reply
  <2> QED
    BY <1>2, <2>1, ProgConcat
<1>5. CASE s = RAM
  <2>1. Program(s, x) = reply
    BY <1>5, ServersApart DEF Program, Reply
  <2> QED
    BY <1>2, <2>1
<1>6. CASE s = TIMER
  <2>1. Program(s, x) = << <<"add_time_event">> >>
    BY <1>6, ServersApart DEF Program
  <2>2. "add_time_event" \in Plain /\ OpOK(s, <<"add_time_event">>)
    BY <1>6 DEF Plain, Ending, Answering, OpOK
  <2> QED
    BY <2>1, <2>2, ProgPlain
<1>7. CASE s = TTY
  <2>1. x \in {"read", "write"}
    BY <1>7, ServersApart DEF Request
  <2>2. Program(s, x) = IF x = "write" THEN reply ELSE << <<"read">> >>
    BY <1>7, <2>1, ServersApart DEF Program, TtyProgram, Reply
  <2>3. "read" \in Plain /\ OpOK(s, <<"read">>)
    BY <1>7 DEF Plain, Ending, Answering, OpOK
  <2>4. Prog(s, << <<"read">> >>) /\ ~Uses(<< <<"read">> >>, "waitpid")
    BY <2>3, ProgPlain
  <2> QED
    BY <1>2, <2>2, <2>4
<1>8. CASE s = FILE
  <2>1. x \in {"io", "closed", "readline", "puts", "fd_table"}
    BY <1>8, ServersApart DEF Request
  <2>2. Program(s, x) = FileProgram(x)
    BY <1>8, ServersApart DEF Program
  <2>3. CanCall(s, RAM) /\ CanCall(s, TTY)
    BY <1>8 DEF CanCall
  <2>4. /\ "io" \in MsgTypes /\ "read" \in MsgTypes /\ "write" \in MsgTypes
    BY DEF MsgTypes
  <2>5. Request(RAM, M("io", None)) /\ Request(TTY, M("read", None)) /\ Request(TTY, M("write", None))
    BY <2>4, Bodies DEF Request
  <2>6. CASE x = "io"
    <3>1. Program(s, x) = Call(RAM, "io", None) \o reply
      BY <2>2, <2>6 DEF FileProgram, Reply
    <3> QED
      BY <1>4, <2>3, <2>4, <2>5, <3>1
  <2>7. CASE x = "closed"
    <3>1. Program(s, x) = << <<"ignore">> >>
      BY <2>2, <2>7 DEF FileProgram
    <3>2. "ignore" \in Plain /\ OpOK(s, <<"ignore">>)
      BY <1>8 DEF Plain, Ending, Answering, OpOK
    <3> QED
      BY <3>1, <3>2, ProgPlain
  <2>8. CASE x = "readline"
    <3>1. Program(s, x) = Call(TTY, "read", None) \o reply
      BY <2>2, <2>8 DEF FileProgram, Reply
    <3> QED
      BY <1>4, <2>3, <2>4, <2>5, <3>1
  <2>9. CASE x = "puts"
    <3>1. Program(s, x) = Call(TTY, "write", None) \o reply
      BY <2>2, <2>9 DEF FileProgram, Reply
    <3> QED
      BY <1>4, <2>3, <2>4, <2>5, <3>1
  <2>10. CASE x = "fd_table"
    <3>1. Program(s, x) = reply
      BY <2>2, <2>10 DEF FileProgram, Reply
    <3> QED
      BY <1>2, <3>1
  <2> QED
    BY <2>1, <2>6, <2>7, <2>8, <2>9, <2>10
<1>9. CASE s = MEMORY
  <2>2. Program(s, x) = IF x = "load" THEN Call(FILE, "io", None) \o reply ELSE reply
    BY <1>9, ServersApart DEF Program, MemoryProgram, Reply
  <2>3. CanCall(s, FILE) /\ "io" \in MsgTypes
    BY <1>9 DEF CanCall, MsgTypes
  <2>4. Request(FILE, M("io", None))
    BY <2>3, Bodies DEF Request
  <2>5. Prog(s, Call(FILE, "io", None) \o reply) /\ ~Uses(Call(FILE, "io", None) \o reply, "waitpid")
    BY <1>4, <2>3, <2>4
  <2> QED
    BY <1>2, <2>2, <2>5
<1>10. CASE s = PCB_MANAGER
  <2>1. x \in {"create", "fork", "exec", "exit", "wait"} /\ (x = "wait" => b.arg \in Threads)
    BY <1>10, ServersApart DEF Request
  <2>2. Program(s, x) = ManagerProgram(x)
    BY <1>10, ServersApart DEF Program
  <2>3. CanCall(s, MEMORY) /\ CanCall(s, FILE)
    BY <1>10 DEF CanCall
  <2>4. /\ "load" \in MsgTypes /\ "copy" \in MsgTypes /\ "unmap" \in MsgTypes
        /\ "fd_table" \in MsgTypes /\ "io" \in MsgTypes
    BY DEF MsgTypes
  <2>5. /\ Request(MEMORY, M("load", None)) /\ Request(MEMORY, M("copy", None))
        /\ Request(MEMORY, M("unmap", None)) /\ Request(FILE, M("fd_table", None))
        /\ Request(FILE, M("io", None))
    BY <2>4, Bodies DEF Request
  <2> DEFINE Fine(p) == Prog(s, p) /\ Open(p) /\ ~Uses(p, "waitpid")
             Ends(p) == Prog(s, p) /\ ~Uses(p, "waitpid")
             take == << <<"take">> >>
             place == << <<"place">> >>
             wake == << <<"wakeup_new">> >>
             load == Call(MEMORY, "load", None)
             copy == Call(MEMORY, "copy", None)
             unmap == Call(MEMORY, "unmap", None)
             fd == Call(FILE, "fd_table", None)
             io == Call(FILE, "io", None)
             child == << <<"reply_child">> >>
             restart == << <<"restart">> >>
             release == << <<"release">> >>
  <2>6. Fine(load) /\ Fine(copy) /\ Fine(unmap) /\ Fine(fd) /\ Fine(io)
    <3>1. Fine(load)
      BY <1>3, <2>3, <2>4, <2>5
    <3>2. Fine(copy)
      BY <1>3, <2>3, <2>4, <2>5
    <3>3. Fine(unmap)
      BY <1>3, <2>3, <2>4, <2>5
    <3>4. Fine(fd)
      BY <1>3, <2>3, <2>4, <2>5
    <3>5. Fine(io)
      BY <1>3, <2>3, <2>4, <2>5
    <3> QED
      BY <3>1, <3>2, <3>3, <3>4, <3>5
  <2>7. ASSUME NEW y \in {"take", "place", "wakeup_new"} PROVE Fine(<< <<y>> >>)
    <3>1. y \in Plain /\ OpOK(s, <<y>>) /\ y \notin Ending /\ y # "waitpid"
      BY <1>10 DEF Plain, Ending, Answering, OpOK
    <3>2. Prog(s, << <<y>> >>) /\ \A z : Uses(<< <<y>> >>, z) <=> z = y
      BY <3>1, ProgPlain
    <3> QED
      BY <3>1, <3>2 DEF Open
  <2>8. ASSUME NEW y \in {"reply_child", "restart", "release"} PROVE Ends(<< <<y>> >>)
    <3>1. y \in Plain /\ OpOK(s, <<y>>) /\ y # "waitpid"
      BY <1>10 DEF Plain, Ending, Answering, OpOK
    <3> QED
      BY <3>1, ProgPlain
  <2>9. Ends(child) /\ Ends(restart) /\ Ends(release) /\ Ends(reply)
    BY <1>2, <2>8
  <2>10. Fine(take) /\ Fine(place) /\ Fine(wake)
    BY <2>7
  <2>11. ASSUME NEW p, NEW q, Fine(p), Fine(q) PROVE Fine(p \o q)
    BY <2>11, ProgConcat DEF Open
  <2>12. ASSUME NEW p, NEW q, Fine(p), Ends(q) PROVE Ends(p \o q)
    BY <2>12, ProgConcat
  <2>13. CASE x = "create"
    <3>1. << <<"place">>, <<"wakeup_new">> >> = place \o wake
      OBVIOUS
    <3>2. Program(s, x) = take \o load \o fd \o (place \o wake) \o reply
      BY <2>2, <2>13, <3>1 DEF ManagerProgram, Reply
    <3> HIDE DEF Fine, Ends, take, load, fd, place, wake, reply
    <3>3. Fine(take \o load)
      BY <2>6, <2>10, <2>11
    <3>4. Fine(take \o load \o fd)
      BY <2>6, <3>3, <2>11
    <3>5. Fine(place \o wake)
      BY <2>10, <2>11
    <3>6. Fine(take \o load \o fd \o (place \o wake))
      BY <3>4, <3>5, <2>11
    <3>7. Ends(take \o load \o fd \o (place \o wake) \o reply)
      BY <2>9, <3>6, <2>12
    <3> QED
      BY <3>2, <3>7 DEF Ends
  <2>14. CASE x = "fork"
    <3>2. Program(s, x) = take \o copy \o place \o fd \o child
      BY <2>2, <2>14 DEF ManagerProgram
    <3> HIDE DEF Fine, Ends, take, copy, fd, place, child
    <3>3. Fine(take \o copy)
      BY <2>6, <2>10, <2>11
    <3>4. Fine(take \o copy \o place)
      BY <2>10, <3>3, <2>11
    <3>5. Fine(take \o copy \o place \o fd)
      BY <2>6, <3>4, <2>11
    <3>7. Ends(take \o copy \o place \o fd \o child)
      BY <2>9, <3>5, <2>12
    <3> QED
      BY <3>2, <3>7 DEF Ends
  <2>15. CASE x = "exec"
    <3>2. Program(s, x) = load \o restart
      BY <2>2, <2>15 DEF ManagerProgram
    <3> HIDE DEF Fine, Ends, load, restart
    <3>3. Ends(load \o restart)
      BY <2>6, <2>9, <2>12
    <3> QED
      BY <3>2, <3>3 DEF Ends
  <2>16. CASE x = "exit"
    <3>2. Program(s, x) = unmap \o io \o release
      BY <2>2, <2>16 DEF ManagerProgram
    <3> HIDE DEF Fine, Ends, unmap, io, release
    <3>3. Fine(unmap \o io)
      BY <2>6, <2>11
    <3>4. Ends(unmap \o io \o release)
      BY <2>9, <3>3, <2>12
    <3> QED
      BY <3>2, <3>4 DEF Ends
  <2>17. CASE x = "wait"
    <3>2. Program(s, x) = << <<"waitpid">> >>
      BY <2>2, <2>17 DEF ManagerProgram
    <3>3. "waitpid" \in Plain /\ OpOK(s, <<"waitpid">>)
      BY <1>10 DEF Plain, Ending, Answering, OpOK
    <3> QED
      BY <2>1, <2>17, <3>2, <3>3, ProgPlain
  <2> QED
    BY <2>1, <2>13, <2>14, <2>15, <2>16, <2>17
<1> QED
  BY <1>5, <1>6, <1>7, <1>8, <1>9, <1>10 DEF Servers

(* The program of a message from an interrupt handler. *)
LEMMA InterruptProgram ==
  ASSUME NEW x \in {"key", "update"}
  PROVE  /\ Prog(TTY, Program(TTY, x))
         /\ \A y \in Answering : ~Uses(Program(TTY, x), y)
<1>1. Program(TTY, x) = << <<x>> >>
  BY ServersApart DEF Program, TtyProgram
<1>2. x \in Plain /\ x \notin Answering /\ OpOK(TTY, <<x>>)
  BY DEF Plain, Ending, Answering, OpOK
<1>3. Prog(TTY, << <<x>> >>) /\ \A y : Uses(<< <<x>> >>, y) <=> y = x
  BY <1>2, ProgPlain
<1> QED
  BY <1>1, <1>2, <1>3

(* A system call of a process is a program of it. *)
LEMMA SyscallOK ==
  ASSUME NEW t \in Processes,
         NEW call \in {"io", "closed", "readline", "puts", "sleep", "fork", "exec", "exit", "wait"},
         NEW a \in IF call = "wait" THEN Threads ELSE {None}
  PROVE  Prog(t, Syscall(call, a))
<1>1. CanCall(t, FILE) /\ CanCall(t, TIMER) /\ CanCall(t, PCB_MANAGER)
  BY DEF CanCall
<1>2. call \in MsgTypes /\ a \in Threads \cup {None} /\ (call = "wait" => a \in Threads)
  BY DEF MsgTypes
<1>3. /\ M(call, a).type = call /\ M(call, a).arg = a
      /\ M(call, None).type = call /\ M(call, None).arg = None
  BY <1>2, Bodies
<1>4. CASE call \in {"io", "closed", "readline", "puts"}
  <2>1. Syscall(call, a) = Call(FILE, call, None)
    BY <1>4 DEF Syscall, FileSyscall
  <2>2. Request(FILE, M(call, None))
    BY <1>3, <1>4 DEF Request
  <2> QED
    BY <1>1, <1>2, <2>1, <2>2, ProgCall
<1>5. CASE call = "sleep"
  <2>1. Syscall(call, a) = Call(TIMER, call, None)
    BY <1>5 DEF Syscall
  <2>2. Request(TIMER, M(call, None))
    BY <1>3, <1>5 DEF Request
  <2> QED
    BY <1>1, <1>2, <2>1, <2>2, ProgCall
<1>6. CASE call = "fork"
  <2> DEFINE wake == << <<"wakeup">> >>
             ask == Call(PCB_MANAGER, call, None)
  <2>1. Syscall(call, a) = ask \o wake
    BY <1>6 DEF Syscall
  <2>2. Request(PCB_MANAGER, M(call, None))
    BY <1>3, <1>6 DEF Request
  <2>3. Prog(t, ask) /\ Open(ask)
    BY <1>1, <1>2, <2>2, ProgCall
  <2>4. "wakeup" \in Plain /\ OpOK(t, <<"wakeup">>)
    BY DEF Plain, Ending, OpOK
  <2>5. Prog(t, wake)
    BY <2>4, ProgPlain
  <2> HIDE DEF wake, ask
  <2> QED
    BY <2>1, <2>3, <2>5, ProgConcat
<1>7. CASE call \in {"exec", "exit", "wait"}
  <2>1. Syscall(call, a) = Call(PCB_MANAGER, call, a)
    BY <1>7 DEF Syscall
  <2>2. Request(PCB_MANAGER, M(call, a))
    BY <1>2, <1>3, <1>7 DEF Request
  <2> QED
    BY <1>1, <1>2, <2>1, <2>2, ProgCall
<1> QED
  BY <1>4, <1>5, <1>6, <1>7

(* The turns of a getty, the start of the file server and create_shell(). *)
LEMMA StartOK ==
  /\ \A t \in Gettys, n \in {0, 1} : Prog(t, GettyTurn(n))
  /\ Prog(FILE, Call(RAM, "io", None))
  /\ Prog(create_shell, CreateShell)
<1> DEFINE read == Call(TTY, "read", None)
           write == Call(TTY, "write", None)
           io == Call(FILE, "io", None)
           make == Call(PCB_MANAGER, "create", None)
           fin == << <<"finish">> >>
<1>1. /\ "io" \in MsgTypes /\ "read" \in MsgTypes /\ "write" \in MsgTypes /\ "create" \in MsgTypes
      /\ None \in Threads \cup {None}
  BY DEF MsgTypes
<1>2. /\ Request(TTY, M("read", None)) /\ Request(TTY, M("write", None))
      /\ Request(FILE, M("io", None)) /\ Request(RAM, M("io", None))
      /\ Request(PCB_MANAGER, M("create", None))
  BY <1>1, Bodies DEF Request
<1>3. ASSUME NEW t \in Gettys, NEW n \in {0, 1} PROVE Prog(t, GettyTurn(n))
  <2>1. CanCall(t, TTY)
    BY DEF CanCall
  <2>2. Prog(t, read) /\ Open(read)
    BY <1>1, <1>2, <2>1, ProgCall
  <2>3. Prog(t, write)
    BY <1>1, <1>2, <2>1, ProgCall
  <2>4. Prog(t, <<>>)
    BY ProgEmpty
  <2>5. GettyTurn(n) = read \o <<>> \/ GettyTurn(n) = read \o write
    BY DEF GettyTurn
  <2> HIDE DEF read, write
  <2>6. Prog(t, read \o <<>>) /\ Prog(t, read \o write)
    BY <2>2, <2>3, <2>4, ProgConcat
  <2> QED
    BY <2>5, <2>6
<1>4. Prog(FILE, Call(RAM, "io", None))
  <2>1. CanCall(FILE, RAM)
    BY DEF CanCall
  <2> QED
    BY <1>1, <1>2, <2>1, ProgCall
<1>5. Prog(create_shell, CreateShell)
  <2>1. CanCall(create_shell, FILE) /\ CanCall(create_shell, PCB_MANAGER)
    BY Kinds DEF CanCall
  <2>2. Prog(create_shell, io) /\ Open(io)
    BY <1>1, <1>2, <2>1, ProgCall
  <2>3. Prog(create_shell, make) /\ Open(make)
    BY <1>1, <1>2, <2>1, ProgCall
  <2>4. "finish" \in Plain /\ OpOK(create_shell, <<"finish">>)
    BY Kinds DEF Plain, Ending, OpOK
  <2>5. Prog(create_shell, fin)
    BY <2>4, ProgPlain
  <2>6. CreateShell = io \o make \o fin
    BY DEF CreateShell
  <2> HIDE DEF io, make, fin
  <2>7. Prog(create_shell, io \o make) /\ Open(io \o make)
    BY <2>2, <2>3, ProgConcat DEF Open
  <2> QED
    BY <2>5, <2>6, <2>7, ProgConcat
<1> QED
  BY <1>3, <1>4, <1>5

(* syscall_fork() that knows the child. *)
LEMMA WakeupOK ==
  ASSUME NEW t \in Processes, NEW x \in Threads \cup {None}
  PROVE  Prog(t, << <<"wakeup", x>> >>)
<1> DEFINE op == <<"wakeup", x>>
<1>1. op \in Ops /\ op[1] = "wakeup"
  BY DEF Ops
<1> HIDE DEF op
<1>2. OpOK(t, op)
  BY <1>1 DEF OpOK
<1>3. Prog(t, <<op>>)
  BY <1>1, <1>2, ProgOne
<1> QED
  BY <1>3 DEF op
-----------------------------------------------------------------------------
(* The state a step starts from. *)

(* The running thread is in the ring, so not free. *)
LEMMA RunningFacts ==
  ASSUME IInv, Running
  PROVE  /\ current \in Threads /\ InRing(current) /\ current \notin wait /\ ~Gone(current)
         /\ ~isr /\ ~halted /\ BoxOK(current)
<1>1. /\ RingOK(ring, wait, current) /\ Apart(ring, wait, free, held) /\ current # Idle
      /\ ~isr /\ ~halted
  BY DEF IInv, LInv, ListsOK, Running
<1>2. current \in Threads /\ On(ring, current)
  BY <1>1 DEF RingOK, Nodes
<1>3. current \notin wait /\ ~Gone(current)
  BY <1>1, <1>2 DEF RingOK, Apart, Gone
<1> QED
  BY <1>1, <1>2, <1>3 DEF IInv, InRing

(* A client that is at no point of a receive() from s has asked s nothing. *)
LEMMA SilentOutside ==
  ASSUME NEW t, NEW s, Pair(t, s), ~AtReceive(t, s), ~InFirst(t, s), ~Taking(t, s)
  PROVE  Silent(t, s)
BY DEF Pair, Silent

(* ... which is so for a thread that is free or not at a receive(). *)
LEMMA SilentElsewhere ==
  ASSUME Pairs, NEW t \in Threads,
         \/ Gone(t) /\ t # current
         \/ pc[t] = "enabled"
         \/ pc[t] = "run" /\ (todo[t] = <<>> \/ todo[t][1][1] # "receive")
         \/ pc[t] \in {"second", "take"} /\ from[t] = ANY,
         NEW s, CanCall(t, s)
  PROVE  Silent(t, s)
<1>1. s \in Servers /\ s # ANY
  BY CallTypes
<1>2. Pair(t, s)
  BY <1>1 DEF Pairs
<1>3. ~InFirst(t, s) /\ ~Taking(t, s)
  BY <1>1 DEF InFirst, Taking
<1>4. ~AtReceive(t, s)
  <2>1. <<"receive", s>>[1] = "receive"
    OBVIOUS
  <2> QED
    BY <2>1 DEF AtReceive
<1> QED
  BY <1>2, <1>3, <1>4, SilentOutside

(* A thread about to perform operation x. *)
LEMMA DoingFacts ==
  ASSUME ProtoInv, NEW x, Doing(x)
  PROVE  /\ InThread /\ Running /\ current \in Threads /\ ~Gone(current) /\ pc[current] = "run"
         /\ ~isr /\ ~halted /\ todo[current] # <<>> /\ Head(todo[current]) = todo[current][1]
         /\ todo[current][1][1] = x
         /\ x # "notify" => Prog(current, todo[current])
         /\ x = "notify" => \E p \in Processes : Notifies(current, p)
         /\ x # "receive" => \A s : CanCall(current, s) => Silent(current, s)
<1>1. /\ InThread /\ Running /\ todo[current] # <<>> /\ Head(todo[current])[1] = x
      /\ pc[current] = "run" /\ IInv /\ Pairs /\ ProgsOK
  BY DEF Doing, InThread, ProtoInv
<1>2. current \in Threads /\ ~Gone(current) /\ ~isr /\ ~halted
  BY <1>1, RunningFacts
<1>3. todo[current] \in Seq(Ops)
  BY <1>2 DEF ProtoInv, PTypeOK
<1>4. Head(todo[current]) = todo[current][1]
  BY <1>1, <1>3
<1>5. Prog(current, todo[current]) \/ \E p \in Processes : Notifies(current, p)
  BY <1>1, <1>2 DEF ProgsOK
<1>6. ASSUME NEW p \in Processes, Notifies(current, p) PROVE x = "notify"
  BY <1>1, <1>4, <1>6 DEF Notifies, Notify
<1>7. ASSUME Prog(current, todo[current]) PROVE x # "notify"
  <2>1. OpOK(current, todo[current][1])
    BY <1>1, <1>7, ProgTail
  <2> QED
    BY <1>1, <1>4, <2>1 DEF OpOK
<1>8. ASSUME x # "receive", NEW s, CanCall(current, s) PROVE Silent(current, s)
  BY <1>1, <1>2, <1>4, <1>8, SilentElsewhere
<1> QED
  BY <1>1, <1>2, <1>4, <1>5, <1>6, <1>7, <1>8

(* Who performs which operation. *)
LEMMA Performers ==
  ASSUME ProtoInv, NEW x, Doing(x), x # "notify"
  PROVE  /\ OpOK(current, todo[current][1])
         /\ x = "reply" => current \in Servers
         /\ x \in {"read", "key", "update"} => current = TTY
         /\ x = "ignore" => current = FILE
         /\ x = "add_time_event" => current = TIMER
         /\ x \in {"take", "place", "wakeup_new", "reply_child", "restart", "release", "waitpid"}
              => current = PCB_MANAGER
         /\ x \in {"wakeup", "finish"} => current \in Processes
<1>1. /\ todo[current][1][1] = x /\ todo[current] # <<>> /\ Prog(current, todo[current])
  BY DoingFacts
<1>2. OpOK(current, todo[current][1])
  BY <1>1, ProgTail
<1> QED
  BY <1>1, <1>2 DEF OpOK

(* A server about to answer has a job, whose owner waits for it. *)
LEMMA Answerer ==
  ASSUME ProtoInv, NEW x \in Answering, Doing(x)
  PROVE  /\ current \in Servers /\ current \in Threads
         /\ job[current] \in Threads /\ CanCall(job[current], current)
         /\ Pair(job[current], current) /\ Served(job[current], current)
         /\ InFirst(job[current], current) /\ job[current] # current
         /\ Tail(todo[current]) = <<>>
         /\ x = "waitpid" => arg[current] \in Threads
<1>0. x # "notify" /\ x # "receive"
  BY DEF Answering
<1>1. /\ todo[current][1][1] = x /\ todo[current] # <<>> /\ Prog(current, todo[current])
      /\ current \in Threads
  BY <1>0, DoingFacts
<1>2. Tail(todo[current]) = <<>> /\ Len(todo[current]) \in Nat /\ Len(todo[current]) > 0
  BY <1>1, ProgTail DEF Ending
<1>3. current \in Servers
  BY <1>0, Performers, Kinds DEF Answering
<1>4. 1 \in 1..Len(todo[current])
  BY <1>2
<1>5. Uses(todo[current], x)
  BY <1>1, <1>4 DEF Uses
<1>6. JobKnown(current)
  BY <1>3 DEF ProtoInv, ProgsOK
<1>7. job[current] \in Threads /\ (x = "waitpid" => arg[current] \in Threads)
  BY <1>5, <1>6 DEF JobKnown
<1>8. CanCall(job[current], current)
  BY <1>3, <1>7 DEF ProtoInv, PTypeOK, JobType
<1>9. Pair(job[current], current) /\ Served(job[current], current)
  BY <1>3, <1>7, <1>8 DEF ProtoInv, Pairs, Served
<1>10. InFirst(job[current], current)
  BY <1>9 DEF Pair
<1>11. job[current] # current
  BY <1>8, CallTypes
<1> QED
  BY <1>1, <1>2, <1>3, <1>7, <1>8, <1>9, <1>10, <1>11
-----------------------------------------------------------------------------
(* What a step leaves alone. *)

\* Nobody moves in its code or between the free and the other PCBs.
Steady == UNCHANGED <<free, held, current, isr, user, pc, from>>

\* The message [src, body] is added to the box of dest.
Sent(src, dest, body) ==
  queue' = [queue EXCEPT ![dest] = Append(@, [src |-> src, body |-> body])]

(* A step of the core keeps what is proved of the core. *)
LEMMA CoreKeeps == IInv /\ [Next]_vars => IInv'
<1> SUFFICES ASSUME IInv, [Next]_vars PROVE IInv'
  OBVIOUS
<1>1. LInv'
  BY NextKeeps DEF IInv
<1>2. \A t \in Threads : BoxOK(t)'
  BY NextBoxes
<1> QED
  BY <1>1, <1>2 DEF IInv

(* A failed assertion stops the machine and changes nothing else. *)
LEMMA HaltKeeps ==
  ASSUME IInv, Halt
  PROVE  IInv' /\ Steady /\ queue' = queue
<1>1. /\ UNCHANGED <<ring, wait, free, held, current, isr, user, pc, from, token, block, queue>>
      /\ halted' = TRUE
  BY DEF Halt, lists, boxes
<1>2. LInv'
  BY <1>1 DEF IInv, LInv, ListsOK, RingOK, FreeOK, Apart, BoxType
<1>3. \A t \in Threads : BoxOK(t)'
  BY <1>1, Frame DEF IInv
<1> QED
  BY <1>1, <1>2, <1>3 DEF IInv, Steady

(* send() adds one message, or stops the machine. *)
LEMMA SendKernel ==
  ASSUME IInv, NEW src \in Sources, NEW dest \in Threads, NEW body \in Body,
         Send(src, dest, body)
  PROVE  IInv' /\ Steady /\ (Sent(src, dest, body) \/ (queue' = queue /\ halted'))
<1>1. LInv'
  BY SendKeeps DEF IInv
<1>2. \A t \in Threads : BoxOK(t)'
  BY SendStep
<1>3. CASE Halt
  BY <1>1, <1>2, <1>3, HaltKeeps DEF Halt, IInv
<1>4. CASE ~Halt
  BY <1>1, <1>2, <1>4 DEF Send, Sent, Steady, WakeupAll, IInv
<1> QED
  BY <1>3, <1>4

(* What follows for the places of threads. *)
LEMMA SteadyKeeps ==
  ASSUME RunsAlone, KernelThreads, ReceivesOK, Steady
  PROVE  /\ RunsAlone' /\ KernelThreads' /\ ReceivesOK'
         /\ \A t : Gone(t)' <=> Gone(t)
         /\ \A t, s : (InFirst(t, s)' <=> InFirst(t, s)) /\ (Taking(t, s)' <=> Taking(t, s))
<1>1. \A t : Gone(t)' <=> Gone(t)
  BY DEF Gone, Steady
<1>2. RunsAlone'
  BY <1>1 DEF RunsAlone, Steady
<1>3. KernelThreads'
  BY <1>1 DEF KernelThreads, Steady
<1>4. ReceivesOK'
  BY DEF ReceivesOK, Steady
<1>5. \A t, s : (InFirst(t, s)' <=> InFirst(t, s)) /\ (Taking(t, s)' <=> Taking(t, s))
  BY <1>1 DEF InFirst, Taking, Steady
<1> QED
  BY <1>1, <1>2, <1>3, <1>4, <1>5

(* No message is sent or taken. *)
LEMMA SameBoxes ==
  ASSUME queue' = queue, NEW t, NEW s
  PROVE  /\ Asked(t, s)' <=> Asked(t, s)
         /\ Replied(t, s)' <=> Replied(t, s)
         /\ Single(t, s)' <=> Single(t, s)
BY DEF Asked, Replied, Single

(* A message is sent. *)
LEMMA SentBoxes ==
  ASSUME BoxType, NEW src \in Sources, NEW dest \in Threads, NEW body \in Body,
         Sent(src, dest, body), NEW t \in Threads, NEW s \in Threads
  PROVE  /\ Asked(t, s)' <=> Asked(t, s) \/ (s = dest /\ t = src)
         /\ Replied(t, s)' <=> Replied(t, s) \/ (t = dest /\ s = src)
         /\ /\ Single(t, s)
            /\ s = dest /\ t = src => ~Asked(t, s)
            /\ t = dest /\ s = src => ~Replied(t, s)
            => Single(t, s)'
<1> DEFINE m == [src |-> src, body |-> body]
<1>1. m \in Msgs /\ m.src = src
  BY DEF Msgs
<1>2. queue \in [Threads -> Seq(Msgs)]
  BY DEF BoxType
<1>3. /\ queue' = [queue EXCEPT ![dest] = Append(@, m)]
  BY DEF Sent
<1> HIDE DEF m
<1>4. ASSUME NEW b \in Threads, NEW x
      PROVE  /\ From(queue[b], x)' <=> From(queue[b], x) \/ (b = dest /\ x = src)
             /\ Once(queue[b], x) /\ (b = dest /\ x = src => ~From(queue[b], x)) => Once(queue[b], x)'
  <2>1. queue[b] \in Seq(Msgs)
    BY <1>2
  <2>2. CASE b # dest
    <3>1. queue'[b] = queue[b]
      BY <1>2, <1>3, <2>2
    <3> QED
      BY <2>2, <3>1
  <2>3. CASE b = dest
    <3>1. queue'[b] = Append(queue[b], m)
      BY <1>2, <1>3, <2>3
    <3>2. /\ From(Append(queue[b], m), x) <=> From(queue[b], x) \/ m.src = x
          /\ Once(queue[b], x) /\ (m.src = x => ~From(queue[b], x)) => Once(Append(queue[b], m), x)
      BY <1>1, <2>1, FromAppend
    <3> QED
      BY <1>1, <2>3, <3>1, <3>2
  <2> QED
    BY <2>2, <2>3
<1>5. Asked(t, s)' <=> Asked(t, s) \/ (s = dest /\ t = src)
  BY <1>4 DEF Asked
<1>6. Replied(t, s)' <=> Replied(t, s) \/ (t = dest /\ s = src)
  BY <1>4 DEF Replied
<1>7. Once(queue[s], t) /\ (s = dest /\ t = src => ~Asked(t, s)) => Once(queue[s], t)'
  BY <1>4 DEF Asked
<1>8. Once(queue[t], s) /\ (t = dest /\ s = src => ~Replied(t, s)) => Once(queue[t], s)'
  BY <1>4 DEF Replied
<1>9. /\ Single(t, s)
      /\ s = dest /\ t = src => ~Asked(t, s)
      /\ t = dest /\ s = src => ~Replied(t, s)
      => Single(t, s)'
  BY <1>7, <1>8 DEF Single
<1> QED
  BY <1>5, <1>6, <1>9

(* The message sent is one that the box may hold. *)
LEMMA SentOK ==
  ASSUME BoxType, BoxesOK, NEW src \in Sources, NEW dest \in Threads, NEW body \in Body,
         Sent(src, dest, body), MsgOK(dest, [src |-> src, body |-> body])
  PROVE  BoxesOK'
<1> DEFINE m == [src |-> src, body |-> body]
<1>1. m \in Msgs /\ MsgOK(dest, m)
  BY DEF Msgs
<1>2. queue \in [Threads -> Seq(Msgs)] /\ queue' = [queue EXCEPT ![dest] = Append(@, m)]
  BY DEF BoxType, Sent
<1> HIDE DEF m
<1> SUFFICES ASSUME NEW t \in Threads, NEW i \in 1..Len(queue'[t])
             PROVE  MsgOK(t, queue'[t][i])
  BY DEF BoxesOK, MsgOK
<1>3. CASE t # dest
  BY <1>2, <1>3 DEF BoxesOK
<1>4. CASE t = dest
  <2>1. queue'[t] = Append(queue[t], m) /\ queue[t] \in Seq(Msgs)
    BY <1>2, <1>4
  <2>2. \A j \in 1..Len(queue[t]) : MsgOK(t, queue[t][j])
    BY DEF BoxesOK
  <2>3. (i \in 1..Len(queue[t]) /\ queue'[t][i] = queue[t][i]) \/ queue'[t][i] = m
    BY <1>1, <2>1
  <2> QED
    BY <1>1, <1>4, <2>2, <2>3
<1> QED
  BY <1>3, <1>4
-----------------------------------------------------------------------------
(* How requests move. *)

Fewer(t, s) ==
  /\ Served(t, s)' => Served(t, s)
  /\ Kept(t, s)' => Kept(t, s)
  /\ Returned(t, s)' => Returned(t, s)

\* The client does not leave its receive() while its request is under way.
Stays(t, s) ==
  /\ AtReceive(t, s) => AtReceive(t, s)' \/ InFirst(t, s)' \/ Silent(t, s)
  /\ InFirst(t, s) => InFirst(t, s)' \/ Silent(t, s) \/ (Replied(t, s) /\ Taking(t, s)')
  /\ Taking(t, s) => Taking(t, s)' \/ Silent(t, s)

(* A step that moves no request of the pair forward. *)
LEMMA PairKept ==
  ASSUME NEW t, NEW s, Pair(t, s), Single(t, s)', Asked(t, s)' => Asked(t, s),
         Replied(t, s)' => Replied(t, s), Fewer(t, s), Stays(t, s)
  PROVE  Pair(t, s)'
BY DEF Pair, Fewer, Stays, Silent

\* The request is put away, or passed on to be answered: from Served to Kept,
\* or from Kept to Returned.
Moves(t, s) ==
  /\ \/ Served(t, s) /\ ~Served(t, s)' /\ ~Returned(t, s)'
     \/ Kept(t, s) /\ ~Served(t, s)' /\ ~Kept(t, s)'
  /\ InFirst(t, s) => InFirst(t, s)'

(* A step that sends nothing. *)
LEMMA QuietPairs ==
  ASSUME Pairs, queue' = queue,
         \A t, s : CanCall(t, s) =>
                    (Fewer(t, s) /\ Stays(t, s)) \/ Moves(t, s) \/ Silent(t, s)'
  PROVE  Pairs'
<1> SUFFICES ASSUME NEW t \in Threads, NEW s \in Servers, CanCall(t, s) PROVE Pair(t, s)'
  BY DEF Pairs
<1>1. Pair(t, s)
  BY DEF Pairs
<1>2. /\ Asked(t, s)' <=> Asked(t, s)
      /\ Replied(t, s)' <=> Replied(t, s)
      /\ Single(t, s)' <=> Single(t, s)
  BY SameBoxes
<1>3. Single(t, s)
  BY <1>1 DEF Pair
<1>4. CASE Fewer(t, s) /\ Stays(t, s)
  BY <1>1, <1>2, <1>3, <1>4, PairKept
<1>5. CASE Moves(t, s)
  BY <1>1, <1>2, <1>5 DEF Pair, Moves
<1>6. CASE Silent(t, s)'
  BY <1>2, <1>3, <1>6 DEF Pair, Silent
<1> QED
  BY <1>4, <1>5, <1>6

(* Server v, or its interrupt handler, answers c. *)
LEMMA AnswerPairs ==
  ASSUME Pairs, BoxType, NEW v, NEW c, CanCall(c, v), NEW body \in Body,
         Sent(v, c, body) \/ queue' = queue,
         Served(c, v) \/ Kept(c, v) \/ Returned(c, v),
         ~Served(c, v)', ~Kept(c, v)', ~Returned(c, v)',
         InFirst(c, v) => InFirst(c, v)',
         \A t, s : CanCall(t, s) /\ (t # c \/ s # v) => Fewer(t, s) /\ Stays(t, s)
  PROVE  Pairs'
<1> SUFFICES ASSUME NEW t \in Threads, NEW s \in Servers, CanCall(t, s) PROVE Pair(t, s)'
  BY DEF Pairs
<1>0. /\ c \in Threads /\ v \in Threads /\ s \in Threads /\ v \in Sources /\ c # v
      /\ v \in Servers
  BY CallTypes DEF Sources
<1>1. Pair(t, s) /\ (t # c \/ s # v => Fewer(t, s) /\ Stays(t, s)) /\ Pair(c, v)
  BY <1>0 DEF Pairs
<1>2. Single(t, s) /\ InFirst(c, v) /\ ~Asked(c, v) /\ ~Replied(c, v)
  BY <1>1 DEF Pair
<1>3. ~(s = c /\ t = v)
  BY NoCallBack
<1>4. CASE queue' = queue
  <2>1. /\ Asked(t, s)' <=> Asked(t, s)
        /\ Replied(t, s)' <=> Replied(t, s)
        /\ Single(t, s)' <=> Single(t, s)
    BY <1>4, SameBoxes
  <2>2. CASE t # c \/ s # v
    BY <1>1, <1>2, <2>1, <2>2, PairKept
  <2>3. CASE t = c /\ s = v
    BY <1>1, <1>2, <2>1, <2>3 DEF Pair
  <2> QED
    BY <2>2, <2>3
<1>5. CASE Sent(v, c, body)
  <2>1. /\ Asked(t, s)' <=> Asked(t, s)
        /\ Replied(t, s)' <=> Replied(t, s) \/ (t = c /\ s = v)
        /\ Single(t, s)'
    BY <1>0, <1>2, <1>3, <1>5, SentBoxes
  <2>2. CASE t # c \/ s # v
    BY <1>1, <1>2, <2>1, <2>2, PairKept
  <2>3. CASE t = c /\ s = v
    BY <1>1, <1>2, <2>1, <2>3 DEF Pair
  <2> QED
    BY <2>2, <2>3
<1> QED
  BY <1>4, <1>5

(* Thread c asks server v. *)
LEMMA AskPairs ==
  ASSUME Pairs, BoxType, NEW v, NEW c, CanCall(c, v), NEW body \in Body,
         Sent(c, v, body) \/ queue' = queue,
         Silent(c, v), Fewer(c, v), AtReceive(c, v)',
         \A t, s : CanCall(t, s) /\ (t # c \/ s # v) => Fewer(t, s) /\ Stays(t, s)
  PROVE  Pairs'
<1> SUFFICES ASSUME NEW t \in Threads, NEW s \in Servers, CanCall(t, s) PROVE Pair(t, s)'
  BY DEF Pairs
<1>0. /\ c \in Threads /\ v \in Threads /\ s \in Threads /\ c \in Sources /\ c # v
      /\ v \in Servers
  BY CallTypes DEF Sources
<1>1. Pair(t, s) /\ (t # c \/ s # v => Fewer(t, s) /\ Stays(t, s)) /\ Pair(c, v)
  BY <1>0 DEF Pairs
<1>2. Single(t, s) /\ ~Asked(c, v)
  BY <1>1 DEF Pair, Silent
<1>3. ~(t = v /\ s = c)
  BY NoCallBack
<1>4. CASE queue' = queue
  <2>1. /\ Asked(t, s)' <=> Asked(t, s)
        /\ Replied(t, s)' <=> Replied(t, s)
        /\ Single(t, s)' <=> Single(t, s)
    BY <1>4, SameBoxes
  <2>2. CASE t # c \/ s # v
    BY <1>1, <1>2, <2>1, <2>2, PairKept
  <2>3. CASE t = c /\ s = v
    BY <1>1, <1>2, <2>1, <2>3 DEF Pair, Silent, Fewer
  <2> QED
    BY <2>2, <2>3
<1>5. CASE Sent(c, v, body)
  <2>1. /\ Asked(t, s)' <=> Asked(t, s) \/ (t = c /\ s = v)
        /\ Replied(t, s)' <=> Replied(t, s)
        /\ Single(t, s)'
    BY <1>0, <1>2, <1>3, <1>5, SentBoxes
  <2>2. CASE t # c \/ s # v
    BY <1>1, <1>2, <2>1, <2>2, PairKept
  <2>3. CASE t = c /\ s = v
    BY <1>1, <1>2, <2>1, <2>3 DEF Pair, Silent, Fewer
  <2> QED
    BY <2>2, <2>3
<1> QED
  BY <1>4, <1>5
-----------------------------------------------------------------------------
(* How programs go on. *)

(* Only exit() notifies. *)
LEMMA NoNotify ==
  ASSUME NEW t, NEW p, Prog(t, p), NEW x
  PROVE  p # Notify(x)
<1> SUFFICES ASSUME p = Notify(x) PROVE FALSE
  OBVIOUS
<1>1. p # <<>> /\ p[1][1] = "notify"
  BY DEF Notify
<1>2. OpOK(t, p[1])
  BY <1>1, ProgTail
<1> QED
  BY <1>1, <1>2 DEF OpOK

(* Thread c goes on with program p. *)
LEMMA ProgramChange ==
  ASSUME PTypeOK, ProgsOK, NEW c \in Threads, NEW p,
         todo' = [todo EXCEPT ![c] = p], Prog(c, p),
         \A s \in Servers : s # c => job'[s] = job[s] /\ arg'[s] = arg[s],
         c \in Servers => /\ \A x \in Answering : Uses(p, x) => job'[c] \in Threads
                          /\ Uses(p, "waitpid") => arg'[c] \in Threads
  PROVE  ProgsOK' /\ todo' \in [Threads -> Seq(Ops)]
<1>1. todo \in [Threads -> Seq(Ops)] /\ p \in Seq(Ops)
  BY DEF PTypeOK, Prog
<1>2. todo' \in [Threads -> Seq(Ops)] /\ todo'[c] = p /\ \A t \in Threads : t # c => todo'[t] = todo[t]
  BY <1>1
<1>3. ASSUME NEW t \in Threads
      PROVE  Prog(t, todo'[t]) \/ \E x \in Processes : Notifies(t, x)'
  <2>1. CASE t = c
    BY <1>2, <2>1
  <2>2. CASE t # c
    <3>1. Prog(t, todo[t]) \/ \E x \in Processes : t = PCB_MANAGER /\ todo[t] = Notify(x)
      BY DEF ProgsOK, Notifies
    <3>2. todo'[t] = todo[t]
      BY <1>2, <2>2
    <3> QED
      BY <3>1, <3>2 DEF Notifies
  <2> QED
    BY <2>1, <2>2
<1>4. ASSUME NEW s \in Servers PROVE JobKnown(s)'
  <2>0. s \in Threads
    BY Kinds
  <2>1. CASE s = c
    BY <1>2, <2>1 DEF JobKnown
  <2>2. CASE s # c
    <3>1. JobKnown(s)
      BY DEF ProgsOK
    <3>2. todo'[s] = todo[s] /\ job'[s] = job[s] /\ arg'[s] = arg[s]
      BY <1>2, <2>0, <2>2
    <3> QED
      BY <3>1, <3>2 DEF JobKnown
  <2> QED
    BY <2>1, <2>2
<1> QED
  BY <1>2, <1>3, <1>4 DEF ProgsOK

(* ... which leaves the parents that are told where they are. *)
LEMMA ReturnedSame ==
  ASSUME PTypeOK, NEW c \in Threads, NEW p, todo' = [todo EXCEPT ![c] = p], Prog(c, p),
         pending' \subseteq pending
  PROVE  \A t, s : Returned(t, s)' => Returned(t, s)
<1> SUFFICES ASSUME NEW t, NEW s, Returned(t, s)' PROVE Returned(t, s)
  OBVIOUS
<1>1. CASE s = TIMER /\ <<TIMER, t, M("reply", None)>> \in pending'
  BY <1>1 DEF Returned
<1>2. CASE s = PCB_MANAGER /\ todo'[s] = Notify(t)
  <2>1. todo \in [Threads -> Seq(Ops)] /\ PCB_MANAGER \in Threads
    BY Kinds DEF PTypeOK
  <2>2. todo'[c] # Notify(t)
    BY <2>1, NoNotify
  <2>3. todo[s] = Notify(t)
    BY <1>2, <2>1, <2>2
  <2> QED
    BY <1>2, <2>3 DEF Returned
<1> QED
  BY <1>1, <1>2 DEF Returned, Notify, M

(* The queues and the marks of the drivers and of the process manager. *)
LEMMA KeptSame ==
  ASSUME UNCHANGED <<rstk, sleepers, ppid, is_used, parent_wait>>
  PROVE  \A t, s : Kept(t, s)' <=> Kept(t, s)
BY DEF Kept, Waited

(* A server forgets its job. *)
LEMMA JobDoneFacts ==
  ASSUME JobType, NEW v \in Servers, JobDone(v)
  PROVE  /\ JobType'
         /\ \A s \in Servers : s # v => job'[s] = job[s] /\ arg'[s] = arg[s]
         /\ \A t \in Threads, s \in Servers :
              (Served(t, s)' => Served(t, s)) /\ ~Served(t, v)'
<1>1. /\ job \in [Servers -> Sources \cup {None}] /\ arg \in [Servers -> Threads \cup {None}]
      /\ job' = [job EXCEPT ![v] = None] /\ arg' = [arg EXCEPT ![v] = None]
      /\ None \notin Threads
  BY KernelAssumption DEF JobType, JobDone, None
<1>2. /\ job'[v] = None /\ \A s \in Servers : s # v => job'[s] = job[s] /\ arg'[s] = arg[s]
      /\ job' \in [Servers -> Sources \cup {None}] /\ arg' \in [Servers -> Threads \cup {None}]
  BY <1>1
<1>3. JobType'
  BY <1>1, <1>2 DEF JobType
<1> QED
  BY <1>1, <1>2, <1>3 DEF Served

(* The running thread performs operation x and goes on. *)
LEMMA Advanced ==
  ASSUME ProtoInv, NEW x, Doing(x), x # "notify", Advance,
         pending' \subseteq pending,
         \/ UNCHANGED <<job, arg>>
         \/ x \in Ending /\ \A s \in Servers : s # current => job'[s] = job[s] /\ arg'[s] = arg[s]
  PROVE  /\ ProgsOK' /\ todo' \in [Threads -> Seq(Ops)]
         /\ \A t, s : Returned(t, s)' => Returned(t, s)
         /\ \A t \in Threads : t # current => todo'[t] = todo[t]
         /\ todo'[current] = Tail(todo[current])
<1> DEFINE p == Tail(todo[current])
<1>1. /\ current \in Threads /\ todo[current] # <<>> /\ Prog(current, todo[current])
      /\ todo[current][1][1] = x /\ PTypeOK /\ ProgsOK
  BY DoingFacts DEF ProtoInv
<1>2. /\ Prog(current, p) /\ (x \in Ending => p = <<>>)
      /\ \A i \in 1..Len(p) : p[i] = todo[current][i + 1] /\ i + 1 \in 1..Len(todo[current])
  BY <1>1, ProgTail
<1>3. \A y : Uses(p, y) => Uses(todo[current], y)
  BY <1>2 DEF Uses
<1>4. x \in Ending => \A y : ~Uses(p, y)
  <2>1. \A y : ~Uses(<<>>, y)
    BY DEF Uses
  <2> QED
    BY <1>2, <2>1
<1>5. todo \in [Threads -> Seq(Ops)] /\ todo' = [todo EXCEPT ![current] = p]
  BY <1>1 DEF Advance, PTypeOK
<1> HIDE DEF p
<1>6. ASSUME current \in Servers
      PROVE  /\ \A y \in Answering : Uses(p, y) => job'[current] \in Threads
             /\ Uses(p, "waitpid") => arg'[current] \in Threads
  <2>1. CASE x \in Ending
    BY <1>4, <2>1
  <2>2. CASE UNCHANGED <<job, arg>>
    <3>1. JobKnown(current)
      BY <1>1, <1>6 DEF ProgsOK
    <3> QED
      BY <1>3, <2>2, <3>1 DEF JobKnown
  <2> QED
    BY <2>1, <2>2
<1>7. ProgsOK' /\ todo' \in [Threads -> Seq(Ops)]
  BY <1>1, <1>2, <1>5, <1>6, ProgramChange
<1>8. \A t, s : Returned(t, s)' => Returned(t, s)
  BY <1>1, <1>2, <1>5, ReturnedSame
<1>9. todo'[current] = p /\ \A t \in Threads : t # current => todo'[t] = todo[t]
  BY <1>1, <1>5
<1> QED
  BY <1>7, <1>8, <1>9 DEF p

(* A step in which nobody moves in its code and whose thread asks nothing. *)
LEMMA SteadyStays ==
  ASSUME ProtoInv, Steady, NEW x, Doing(x), x # "receive", NEW t, NEW s, CanCall(t, s)
  PROVE  Stays(t, s)
<1>1. /\ InFirst(t, s)' <=> InFirst(t, s)
      /\ Taking(t, s)' <=> Taking(t, s)
  BY SteadyKeeps DEF ProtoInv
<1>2. AtReceive(t, s) => Silent(t, s)
  BY DoingFacts DEF AtReceive
<1> QED
  BY <1>1, <1>2 DEF Stays
-----------------------------------------------------------------------------
(* Steps that answer. *)

(* The boxes of a step that sends nothing. *)
LEMMA SameBoxesOK == BoxesOK /\ queue' = queue => BoxesOK'
BY DEF BoxesOK, MsgOK

(* PCBs of a step that takes and frees none. *)
LEMMA SameUsed ==
  ASSUME UsedOK, is_used' = is_used, \A t : Gone(t)' <=> Gone(t)
  PROVE  UsedOK'
BY DEF UsedOK

(* The process manager's fields. *)
LEMMA SameProcs == ProcType /\ UNCHANGED procs => ProcType'
BY DEF ProcType, Waited, procs

(* A server answers the request it serves. *)
LEMMA AnswerStep ==
  ASSUME ProtoInv, NEW x \in Answering, Doing(x), Advance, JobDone(current),
         NEW body \in Body, body.type = "reply", Send(current, job[current], body),
         UNCHANGED <<rstk, sleepers, pending, procs>>, DriverType'
  PROVE  ProtoInv'
<1>a. PICK v : v = current
  OBVIOUS
<1>b. PICK c : c = job[current]
  OBVIOUS
<1>1. /\ v \in Servers /\ v \in Threads /\ c \in Threads /\ CanCall(c, v) /\ Pair(c, v)
      /\ Served(c, v) /\ InFirst(c, v) /\ v \in Sources
  BY <1>a, <1>b, Answerer DEF Sources
<1>2. x # "notify" /\ x # "receive" /\ x \in Ending
  BY DEF Answering, Ending
<1>3. /\ IInv /\ PTypeOK /\ ProgsOK /\ BoxesOK /\ RunsAlone /\ KernelThreads /\ ReceivesOK
      /\ UsedOK /\ Pairs /\ BoxType /\ JobType /\ ProcType
  BY DEF ProtoInv, PTypeOK, IInv, LInv
<1>4. IInv' /\ Steady /\ (Sent(v, c, body) \/ queue' = queue)
  BY <1>a, <1>b, <1>1, <1>3, SendKernel
<1>5. /\ RunsAlone' /\ KernelThreads' /\ ReceivesOK'
      /\ \A t : Gone(t)' <=> Gone(t)
      /\ InFirst(c, v)'
  BY <1>1, <1>3, <1>4, SteadyKeeps
<1>6. /\ JobType'
      /\ \A s \in Servers : s # v => job'[s] = job[s] /\ arg'[s] = arg[s]
      /\ \A t \in Threads, s \in Servers :
           (Served(t, s)' => Served(t, s)) /\ ~Served(t, v)'
  BY <1>a, <1>1, <1>3, JobDoneFacts
<1>7. /\ ProgsOK' /\ todo' \in [Threads -> Seq(Ops)]
      /\ \A t, s : Returned(t, s)' => Returned(t, s)
  BY <1>a, <1>2, <1>6, Advanced
<1>8. BoxesOK'
  <2>1. MsgOK(c, [src |-> v, body |-> body])
    BY <1>1 DEF MsgOK
  <2> QED
    BY <1>1, <1>3, <1>4, <2>1, SentOK, SameBoxesOK
<1>9. ProcType' /\ UsedOK'
  BY <1>3, <1>5, SameProcs, SameUsed DEF procs
<1>10. \A t, s : Kept(t, s)' <=> Kept(t, s)
  BY KeptSame DEF procs
<1>11. Pairs'
  <2>1. ~Kept(c, v) /\ ~Returned(c, v)
    BY <1>1 DEF Pair
  <2>2. ~Served(c, v)' /\ ~Kept(c, v)' /\ ~Returned(c, v)'
    BY <1>1, <1>6, <1>7, <1>10, <2>1
  <2>3. ASSUME NEW t, NEW s, CanCall(t, s) PROVE Fewer(t, s) /\ Stays(t, s)
    <3>1. t \in Threads /\ s \in Servers
      BY <2>3, CallTypes
    <3>2. Stays(t, s)
      BY <1>2, <1>4, <2>3, SteadyStays
    <3> QED
      BY <1>6, <1>7, <1>10, <3>1, <3>2 DEF Fewer
  <2> QED
    BY <1>1, <1>3, <1>4, <1>5, <2>2, <2>3, AnswerPairs
<1> QED
  BY <1>4, <1>5, <1>6, <1>7, <1>8, <1>9, <1>11 DEF ProtoInv, PTypeOK

(* A job that ends without an answer: the request is dropped. *)
LEMMA DropStep ==
  ASSUME ProtoInv, NEW x \in Ending, Doing(x), Advance, JobDone(current),
         current \in Servers, IInv', Steady, queue' = queue,
         UNCHANGED <<rstk, sleepers, pending, procs>>, DriverType'
  PROVE  ProtoInv'
<1>1. x # "notify" /\ x # "receive"
  BY DEF Answering, Ending
<1>2. /\ PTypeOK /\ ProgsOK /\ BoxesOK /\ RunsAlone /\ KernelThreads /\ ReceivesOK
      /\ UsedOK /\ Pairs /\ JobType /\ ProcType
  BY DEF ProtoInv, PTypeOK
<1>3. /\ RunsAlone' /\ KernelThreads' /\ ReceivesOK'
      /\ \A t : Gone(t)' <=> Gone(t)
  BY <1>2, SteadyKeeps
<1>4. /\ JobType'
      /\ \A s \in Servers : s # current => job'[s] = job[s] /\ arg'[s] = arg[s]
      /\ \A t \in Threads, s \in Servers : Served(t, s)' => Served(t, s)
  BY <1>2, JobDoneFacts
<1>5. /\ ProgsOK' /\ todo' \in [Threads -> Seq(Ops)]
      /\ \A t, s : Returned(t, s)' => Returned(t, s)
  BY <1>1, <1>4, Advanced
<1>6. BoxesOK' /\ ProcType' /\ UsedOK'
  BY <1>2, <1>3, SameBoxesOK, SameProcs, SameUsed DEF procs
<1>7. \A t, s : Kept(t, s)' <=> Kept(t, s)
  BY KeptSame DEF procs
<1>8. ASSUME NEW t, NEW s, CanCall(t, s) PROVE Fewer(t, s) /\ Stays(t, s)
  <2>1. t \in Threads /\ s \in Servers
    BY <1>8, CallTypes
  <2>2. Stays(t, s)
    BY <1>1, <1>8, SteadyStays
  <2> QED
    BY <1>4, <1>5, <1>7, <2>1, <2>2 DEF Fewer
<1>9. Pairs'
  BY <1>2, <1>8, QuietPairs
<1> QED
  BY <1>3, <1>4, <1>5, <1>6, <1>9 DEF ProtoInv, PTypeOK

(* DoReply, DoReplyChild, Ignore and Key. *)
LEMMA ReplySteps ==
  ASSUME ProtoInv, UNCHANGED procs, DoReply \/ DoReplyChild \/ Ignore \/ Key
  PROVE  ProtoInv'
<1>1. DriverType' \/ ~UNCHANGED drivers
  BY DEF ProtoInv, PTypeOK, DriverType, drivers
<1>2. /\ "reply" \in MsgTypes /\ None \in Threads \cup {None} /\ new \in Threads \cup {None}
  BY DEF MsgTypes, ProtoInv, PTypeOK, ProcType
<1>3. /\ M("reply", None) \in Body /\ M("reply", None).type = "reply"
      /\ M("reply", new) \in Body /\ M("reply", new).type = "reply"
  BY <1>2, Bodies
<1>4. CASE DoReply
  <2>1. /\ Doing("reply") /\ Send(current, job[current], M("reply", None)) /\ Advance
        /\ JobDone(current) /\ UNCHANGED drivers
    BY <1>4 DEF DoReply
  <2>2. "reply" \in Answering
    BY DEF Answering
  <2> QED
    BY <1>1, <1>3, <2>1, <2>2, AnswerStep DEF drivers
<1>5. CASE DoReplyChild
  <2>1. /\ Doing("reply_child") /\ Send(PCB_MANAGER, job[PCB_MANAGER], M("reply", new)) /\ Advance
        /\ JobDone(PCB_MANAGER) /\ UNCHANGED drivers
    BY <1>5 DEF DoReplyChild
  <2>2. "reply_child" \in Answering
    BY DEF Answering
  <2>3. current = PCB_MANAGER
    BY <2>1, Performers
  <2> QED
    BY <1>1, <1>3, <2>1, <2>2, <2>3, AnswerStep DEF drivers
<1>6. ASSUME UNCHANGED vars PROVE IInv' /\ Steady /\ queue' = queue
  <2>1. IInv'
    BY <1>6, CoreKeeps DEF ProtoInv
  <2> QED
    BY <1>6, <2>1 DEF vars, lists, boxes, Steady
<1>7. CASE Ignore
  <2>1. Doing("ignore") /\ Advance /\ JobDone(current) /\ UNCHANGED <<vars, drivers>>
    BY <1>7 DEF Ignore
  <2>2. "ignore" \in Answering /\ "ignore" \in Ending
    BY DEF Answering, Ending
  <2>3. current \in Servers
    BY <2>1, <2>2, Answerer
  <2> QED
    BY <1>1, <1>6, <2>1, <2>2, <2>3, DropStep DEF drivers
<1>8. CASE Key
  <2>1. /\ Doing("key") \/ Doing("update")
        /\ Advance /\ JobDone(TTY) /\ UNCHANGED <<vars, drivers>>
    BY <1>8 DEF Key
  <2>2. "key" \in Ending /\ "update" \in Ending
    BY DEF Ending
  <2>3. current = TTY /\ current \in Servers
    BY <2>1, Performers, Kinds
  <2> QED
    BY <1>1, <1>6, <2>1, <2>2, <2>3, DropStep DEF drivers
<1> QED
  BY <1>4, <1>5, <1>7, <1>8

(* A server puts the request it serves away. *)
LEMMA LaterStep ==
  ASSUME ProtoInv, NEW x \in Answering, Doing(x), Advance, JobDone(current),
         UNCHANGED vars, UNCHANGED <<pending, is_used>>, DriverType', ProcType',
         NEW v, v = current, NEW c, c = job[current],
         \A t, s : CanCall(t, s) /\ (t # c \/ s # v) => (Kept(t, s)' => Kept(t, s))
  PROVE  ProtoInv'
<1>1. /\ v \in Servers /\ c \in Threads /\ CanCall(c, v) /\ Pair(c, v)
      /\ Served(c, v) /\ InFirst(c, v)
  BY Answerer
<1>2. x # "notify" /\ x # "receive" /\ x \in Ending
  BY DEF Answering, Ending
<1>3. /\ PTypeOK /\ ProgsOK /\ BoxesOK /\ RunsAlone /\ KernelThreads /\ ReceivesOK
      /\ UsedOK /\ Pairs /\ JobType
  BY DEF ProtoInv, PTypeOK
<1>4. IInv' /\ Steady /\ queue' = queue
  <2>1. IInv'
    BY CoreKeeps DEF ProtoInv
  <2> QED
    BY <2>1 DEF vars, lists, boxes, Steady
<1>5. /\ RunsAlone' /\ KernelThreads' /\ ReceivesOK'
      /\ \A t : Gone(t)' <=> Gone(t)
      /\ InFirst(c, v)'
  BY <1>1, <1>3, <1>4, SteadyKeeps
<1>6. /\ JobType'
      /\ \A s \in Servers : s # v => job'[s] = job[s] /\ arg'[s] = arg[s]
      /\ \A t \in Threads, s \in Servers :
           (Served(t, s)' => Served(t, s)) /\ ~Served(t, v)'
  BY <1>1, <1>3, JobDoneFacts
<1>7. /\ ProgsOK' /\ todo' \in [Threads -> Seq(Ops)]
      /\ \A t, s : Returned(t, s)' => Returned(t, s)
  BY <1>2, <1>6, Advanced
<1>8. BoxesOK' /\ UsedOK'
  BY <1>3, <1>4, <1>5, SameBoxesOK, SameUsed
<1>9. Pairs'
  <2>1. ~Returned(c, v) /\ ~Served(c, v)' /\ ~Returned(c, v)'
    BY <1>1, <1>6, <1>7 DEF Pair
  <2>2. ASSUME NEW t, NEW s, CanCall(t, s), t # c \/ s # v PROVE Fewer(t, s) /\ Stays(t, s)
    <3>1. t \in Threads /\ s \in Servers
      BY <2>2, CallTypes
    <3>2. Stays(t, s)
      BY <1>2, <1>4, <2>2, SteadyStays
    <3> QED
      BY <1>6, <1>7, <2>2, <3>1, <3>2 DEF Fewer
  <2> QED
    <3>1. Moves(c, v)
      BY <1>1, <1>5, <2>1 DEF Moves
    <3> QED
      BY <1>3, <1>4, <2>2, <3>1, QuietPairs
<1> QED
  BY <1>4, <1>5, <1>6, <1>7, <1>8, <1>9 DEF ProtoInv, PTypeOK
-----------------------------------------------------------------------------
(* The terminal and the timer. *)

(* read_request() answers the reader or keeps it. *)
LEMMA ReadStep ==
  ASSUME ProtoInv, ReadRequest, UNCHANGED procs
  PROVE  ProtoInv'
<1>0. "read" \in Answering /\ "read" \in Ending /\ "reply" \in MsgTypes
  BY DEF Answering, Ending, MsgTypes
<1>1. /\ Doing("read") /\ Advance /\ JobDone(TTY) /\ UNCHANGED <<sleepers, pending, ignored>>
  BY DEF ReadRequest
<1>2. current = TTY /\ TTY \in Servers
  BY <1>1, Performers, Kinds
<1>3. PICK c : c = job[TTY]
  OBVIOUS
<1>4. /\ CanCall(c, TTY) /\ c \in Consoles /\ Pair(c, TTY) /\ Served(c, TTY)
  BY <1>0, <1>1, <1>2, <1>3, Answerer, Callers
<1>5. DriverType /\ IInv /\ ProcType
  BY DEF ProtoInv, PTypeOK
<1>6. M("reply", None) \in Body /\ M("reply", None).type = "reply"
  BY <1>0, Bodies
<1>7. CASE lines[c] > 0
  <2>1. /\ Send(TTY, c, M("reply", None)) /\ lines' = [lines EXCEPT ![c] = @ - 1]
        /\ UNCHANGED rstk
    BY <1>3, <1>7 DEF ReadRequest
  <2>2. lines \in [Consoles -> Nat] /\ lines' \in [Consoles -> Nat]
    BY <1>4, <1>5, <1>7, <2>1 DEF DriverType
  <2>3. DriverType'
    BY <1>1, <1>5, <2>1, <2>2 DEF DriverType
  <2> QED
    BY <1>0, <1>1, <1>2, <1>3, <1>6, <2>1, <2>3, AnswerStep
<1>8. CASE ~(lines[c] > 0) /\ Len(rstk[c]) = RSTK_SZ
  <2>1. Halt /\ UNCHANGED <<rstk, lines>>
    BY <1>3, <1>8 DEF ReadRequest
  <2>2. DriverType'
    BY <1>1, <1>5, <2>1 DEF DriverType
  <2>3. IInv' /\ Steady /\ queue' = queue
    BY <1>5, <2>1, HaltKeeps
  <2> QED
    BY <1>0, <1>1, <1>2, <2>1, <2>2, <2>3, DropStep
<1>9. CASE ~(lines[c] > 0) /\ Len(rstk[c]) # RSTK_SZ
  <2>1. rstk' = [rstk EXCEPT ![c] = Append(@, c)] /\ UNCHANGED <<lines, vars>>
    BY <1>3, <1>9 DEF ReadRequest, vars, lists, boxes
  <2>2. rstk[c] = <<>> /\ rstk \in [Consoles -> Seq(Consoles)]
    BY <1>4, <1>5 DEF Pair, Kept, DriverType
  <2>3. /\ rstk' \in [Consoles -> Seq(Consoles)] /\ rstk'[c] = <<c>>
        /\ \A d \in Consoles : d # c => rstk'[d] = rstk[d]
    BY <1>4, <2>1, <2>2
  <2>4. DriverType'
    <3>1. Len(<<c>>) <= 1 /\ <<c>>[1] = c
      OBVIOUS
    <3>2. ASSUME NEW d \in Consoles PROVE Len(rstk'[d]) <= 1 /\ (rstk'[d] # <<>> => rstk'[d][1] = d)
      BY <1>5, <2>3, <3>1 DEF DriverType
    <3> QED
      BY <1>1, <1>5, <2>1, <2>3, <3>2 DEF DriverType
  <2>5. ProcType' /\ is_used' = is_used
    BY <1>5, SameProcs DEF procs
  <2>6. ASSUME NEW t, NEW s, CanCall(t, s), t # c \/ s # TTY, Kept(t, s)' PROVE Kept(t, s)
    <3>1. s = TTY => t \in Consoles /\ rstk'[t] = rstk[t]
      BY <2>3, <2>6, Callers
    <3> QED
      BY <1>1, <2>6, <3>1 DEF Kept, procs, Waited
  <2> QED
    BY <1>0, <1>1, <1>2, <1>3, <2>1, <2>4, <2>5, <2>6, LaterStep
<1> QED
  BY <1>7, <1>8, <1>9

(* add_time_event() answers or keeps the sleeper. *)
LEMMA TimeEventStep ==
  ASSUME ProtoInv, AddTimeEvent, UNCHANGED procs
  PROVE  ProtoInv'
<1>0. "add_time_event" \in Answering /\ "reply" \in MsgTypes
  BY DEF Answering, MsgTypes
<1>1. /\ Doing("add_time_event") /\ Advance /\ JobDone(TIMER) /\ UNCHANGED <<rstk, lines, pending>>
  BY DEF AddTimeEvent
<1>2. current = TIMER /\ TIMER \in Servers
  BY <1>1, Performers, Kinds
<1>3. PICK c : c = job[TIMER]
  OBVIOUS
<1>4. CanCall(c, TIMER) /\ c \in Processes
  BY <1>0, <1>1, <1>2, <1>3, Answerer, Callers
<1>5. DriverType /\ ProcType
  BY DEF ProtoInv, PTypeOK
<1>6. M("reply", None) \in Body /\ M("reply", None).type = "reply"
  BY <1>0, Bodies
<1>7. CASE Send(TIMER, job[TIMER], M("reply", None)) /\ UNCHANGED sleepers
  <2>1. DriverType'
    BY <1>1, <1>5, <1>7 DEF DriverType
  <2> QED
    BY <1>0, <1>1, <1>2, <1>6, <1>7, <2>1, AnswerStep
<1>8. CASE sleepers' = sleepers \cup {job[TIMER]} /\ UNCHANGED vars
  <2>1. DriverType'
    BY <1>1, <1>3, <1>4, <1>5, <1>8 DEF DriverType
  <2>2. ProcType' /\ is_used' = is_used
    BY <1>5, SameProcs DEF procs
  <2>3. ASSUME NEW t, NEW s, CanCall(t, s), t # c \/ s # TIMER, Kept(t, s)' PROVE Kept(t, s)
    BY <1>1, <1>3, <1>8, <2>3 DEF Kept, procs, Waited
  <2> QED
    BY <1>0, <1>1, <1>2, <1>3, <1>8, <2>1, <2>2, <2>3, LaterStep
<1> QED
  BY <1>7, <1>8 DEF AddTimeEvent

(* Enter completes a line: the reader that waits gets it. *)
LEMMA KeyEnterStep ==
  ASSUME ProtoInv, NEW c \in Consoles, KeyEnter(c), UNCHANGED procs
  PROVE  ProtoInv'
<1>0. "key" \in Ending /\ "reply" \in MsgTypes
  BY DEF Ending, MsgTypes
<1>1. /\ Doing("key") /\ Advance /\ JobDone(TTY) /\ UNCHANGED <<sleepers, pending>>
  BY DEF KeyEnter
<1>2. current = TTY /\ TTY \in Servers /\ TTY \in Sources
  BY <1>1, Performers, Kinds DEF Sources
<1>3. /\ IInv /\ PTypeOK /\ ProgsOK /\ BoxesOK /\ RunsAlone /\ KernelThreads /\ ReceivesOK
      /\ UsedOK /\ Pairs /\ BoxType /\ JobType /\ ProcType /\ DriverType
  BY DEF ProtoInv, PTypeOK, IInv, LInv
<1>4. M("reply", None) \in Body /\ M("reply", None).type = "reply"
  BY <1>0, Bodies
<1>5. CASE rstk[c] = <<>>
  <2>1. lines' = [lines EXCEPT ![c] = @ + 1] /\ UNCHANGED <<vars, rstk>>
    BY <1>5 DEF KeyEnter
  <2>2. lines' \in [Consoles -> Nat]
    BY <1>3, <2>1 DEF DriverType
  <2>3. DriverType'
    BY <1>1, <1>3, <2>1, <2>2 DEF DriverType
  <2>4. IInv'
    BY <1>3, <2>1, CoreKeeps
  <2>5. Steady /\ queue' = queue
    BY <2>1 DEF vars, lists, boxes, Steady
  <2> QED
    BY <1>0, <1>1, <1>2, <2>1, <2>3, <2>4, <2>5, DropStep
<1>6. CASE rstk[c] # <<>>
  <2>0. /\ Send(TTY, Last(rstk[c]), M("reply", None)) /\ rstk' = [rstk EXCEPT ![c] = Front(@)]
        /\ UNCHANGED lines
    BY <1>6 DEF KeyEnter
  <2>1. /\ rstk[c] \in Seq(Consoles) /\ Len(rstk[c]) = 1 /\ rstk[c][1] = c
        /\ rstk \in [Consoles -> Seq(Consoles)]
    <3>1. /\ rstk \in [Consoles -> Seq(Consoles)] /\ Len(rstk[c]) <= 1
          /\ rstk[c] # <<>> => rstk[c][1] = c
      BY <1>3 DEF DriverType
    <3>2. rstk[c] \in Seq(Consoles)
      BY <3>1
    <3>3. Len(rstk[c]) \in Nat /\ Len(rstk[c]) # 0
      BY <1>6, <3>2
    <3>4. \A n \in Nat : n <= 1 /\ n # 0 => n = 1
      OBVIOUS
    <3>5. Len(rstk[c]) = 1
      BY <3>1, <3>3, <3>4
    <3> QED
      BY <1>6, <3>1, <3>2, <3>5
  <2>2. Last(rstk[c]) = c /\ Front(rstk[c]) = <<>>
    BY <2>1 DEF Last, Front
  <2>3. /\ rstk' \in [Consoles -> Seq(Consoles)] /\ rstk'[c] = <<>>
        /\ \A d \in Consoles : d # c => rstk'[d] = rstk[d]
    BY <2>0, <2>1, <2>2
  <2>4. DriverType'
    <3>1. Len(<<>>) <= 1
      OBVIOUS
    <3>2. ASSUME NEW d \in Consoles PROVE Len(rstk'[d]) <= 1 /\ (rstk'[d] # <<>> => rstk'[d][1] = d)
      BY <1>3, <2>3, <3>1 DEF DriverType
    <3> QED
      BY <1>1, <1>3, <2>0, <2>3, <3>2 DEF DriverType
  <2>5. CanCall(c, TTY) /\ c \in Threads
    BY Callers, Kinds
  <2>6. Kept(c, TTY) /\ Pair(c, TTY)
    BY <1>2, <1>3, <1>6, <2>5 DEF Kept, Pairs
  <2>7. IInv' /\ Steady /\ (Sent(TTY, c, M("reply", None)) \/ queue' = queue)
    BY <1>2, <1>3, <1>4, <2>0, <2>2, <2>5, SendKernel
  <2>8. /\ RunsAlone' /\ KernelThreads' /\ ReceivesOK'
        /\ \A t : Gone(t)' <=> Gone(t)
        /\ \A t, s : InFirst(t, s)' <=> InFirst(t, s)
    BY <1>3, <2>7, SteadyKeeps
  <2>9. /\ JobType'
        /\ \A s \in Servers : s # TTY => job'[s] = job[s] /\ arg'[s] = arg[s]
        /\ \A t \in Threads, s \in Servers :
             (Served(t, s)' => Served(t, s)) /\ ~Served(t, TTY)'
    BY <1>1, <1>2, <1>3, JobDoneFacts
  <2>10. /\ ProgsOK' /\ todo' \in [Threads -> Seq(Ops)]
         /\ \A t, s : Returned(t, s)' => Returned(t, s)
    BY <1>0, <1>1, <1>2, <2>9, Advanced
  <2>11. BoxesOK'
    <3>1. MsgOK(c, [src |-> TTY, body |-> M("reply", None)])
      BY <1>4, <2>5 DEF MsgOK
    <3> QED
      BY <1>2, <1>3, <1>4, <2>5, <2>7, <3>1, SentOK, SameBoxesOK
  <2>12. ProcType' /\ UsedOK'
    BY <1>3, <2>8, SameProcs, SameUsed DEF procs
  <2>13. Pairs'
    <3>1. ~Served(c, TTY)' /\ ~Kept(c, TTY)' /\ ~Returned(c, TTY)'
      <4>1. ~Kept(c, TTY)'
        BY <2>3, ServersApart DEF Kept
      <4> QED
        BY <1>2, <2>5, <2>6, <2>9, <2>10, <4>1 DEF Pair
    <3>2. ASSUME NEW t, NEW s, CanCall(t, s), t # c \/ s # TTY PROVE Fewer(t, s) /\ Stays(t, s)
      <4>1. t \in Threads /\ s \in Servers
        BY <3>2, CallTypes
      <4>2. Stays(t, s)
        BY <1>1, <2>7, <3>2, SteadyStays
      <4>3. s = TTY => t \in Consoles /\ rstk'[t] = rstk[t]
        BY <2>3, <3>2, Callers
      <4>4. Kept(t, s)' => Kept(t, s)
        BY <1>1, <4>3 DEF Kept, procs, Waited
      <4> QED
        BY <2>9, <2>10, <4>1, <4>2, <4>4 DEF Fewer
    <3> QED
      BY <1>3, <1>4, <2>5, <2>6, <2>7, <2>8, <3>1, <3>2, AnswerPairs
  <2> QED
    BY <2>4, <2>7, <2>8, <2>9, <2>10, <2>11, <2>12, <2>13 DEF ProtoInv, PTypeOK
<1> QED
  BY <1>5, <1>6
-----------------------------------------------------------------------------
(* Interrupts. *)

(* While an interrupt is handled, or can come, nobody is between a send() and
   its receive(). *)
LEMMA NobodyAtReceive ==
  ASSUME IInv, RunsAlone, isr \/ InterruptsOn, NEW t \in Threads
  PROVE  ~Gone(t) => pc[t] \notin {"run", "take"} /\ \A s : ~AtReceive(t, s)
<1>1. ASSUME ~Gone(t), pc[t] \in {"run", "take"} PROVE FALSE
  <2>1. t = current /\ ~isr
    BY <1>1 DEF RunsAlone
  <2>2. current # Idle
    BY <2>1, KernelAssumption
  <2> QED
    BY <1>1, <2>1, <2>2 DEF InterruptsOn
<1> QED
  BY <1>1 DEF AtReceive

(* The running context is not free. *)
LEMMA CurrentNotGone ==
  ASSUME IInv, current \in Threads
  PROVE  ~Gone(current)
BY DEF IInv, LInv, ListsOK, RingOK, Apart, Gone

(* The handler of a key or of the clock starts. *)
LEMMA IrqBeginStep ==
  ASSUME ProtoInv, IrqBegin, UNCHANGED <<todo, job, arg, rstk, lines, procs>>,
         NEW due \in SUBSET sleepers, sleepers' = sleepers \ due,
         NEW upd \in SUBSET {"key", "update"},
         pending' = {<<Intr, TTY, M(u, None)>> : u \in upd}
                      \cup {<<TIMER, t, M("reply", None)>> : t \in due}
  PROVE  ProtoInv'
<1>1. /\ IInv /\ PTypeOK /\ ProgsOK /\ BoxesOK /\ RunsAlone /\ KernelThreads /\ ReceivesOK
      /\ UsedOK /\ Pairs /\ JobType /\ ProcType /\ DriverType
  BY DEF ProtoInv, PTypeOK
<1>2. InterruptsOn /\ isr' = TRUE /\ UNCHANGED <<free, held, current, user, pc, from, queue>>
  BY DEF IrqBegin, lists, boxes
<1>3. IInv'
  BY <1>1, CoreKeeps DEF Next
<1>4. \A t : Gone(t)' <=> Gone(t)
  BY <1>2 DEF Gone
<1>5. /\ \A t, s : InFirst(t, s)' <=> InFirst(t, s)
      /\ \A t, s : Taking(t, s)' <=> Taking(t, s)
      /\ \A t, s : AtReceive(t, s)' <=> AtReceive(t, s)
  BY <1>2, <1>4 DEF InFirst, Taking, AtReceive
<1>6. RunsAlone'
  <2>1. \A t \in Threads : ~Gone(t) => pc[t] \notin {"run", "take"}
    BY <1>1, <1>2, NobodyAtReceive
  <2> QED
    BY <1>2, <1>4, <2>1 DEF RunsAlone
<1>7. KernelThreads' /\ ReceivesOK'
  BY <1>1, <1>2, <1>4 DEF KernelThreads, ReceivesOK
<1>8. BoxesOK' /\ ProcType' /\ UsedOK' /\ JobType'
  BY <1>1, <1>2, <1>4, SameBoxesOK, SameProcs, SameUsed DEF procs, JobType
<1>9. ProgsOK' /\ todo' \in [Threads -> Seq(Ops)]
  BY <1>1 DEF ProgsOK, JobKnown, Notifies, PTypeOK
<1>10. DriverType'
  <2>1. due \subseteq Processes
    BY <1>1 DEF DriverType
  <2>2. pending' \subseteq {<<Intr, TTY, M(u, None)>> : u \in {"key", "update"}}
                            \cup {<<TIMER, t, M("reply", None)>> : t \in Processes}
    BY <2>1
  <2> QED
    BY <1>1, <2>2 DEF DriverType
<1>11. ASSUME NEW t, NEW s, CanCall(t, s)
       PROVE  (Fewer(t, s) /\ Stays(t, s)) \/ Moves(t, s)
  <2>1. /\ Served(t, s)' <=> Served(t, s)
        /\ Pair(t, s)
    BY <1>1, <1>11, CallTypes DEF Served, Pairs
  <2>2. Stays(t, s)
    BY <1>5 DEF Stays
  <2>3. TIMER # Intr
    BY Kinds, KernelAssumption
  <2>4. s = TIMER => (Returned(t, s)' <=> t \in due)
    <3>1. <<TIMER, t, M("reply", None)>> \in pending' <=> t \in due
      BY <2>3
    <3> QED
      BY <3>1, ServersApart DEF Returned
  <2>5. s # TIMER => (Returned(t, s)' <=> Returned(t, s)) /\ (Kept(t, s)' <=> Kept(t, s))
    BY DEF Returned, Kept, procs, Waited
  <2>6. s = TIMER => (Kept(t, s) <=> t \in sleepers) /\ (Kept(t, s)' <=> t \in sleepers \ due)
    BY ServersApart DEF Kept
  <2>7. CASE s = TIMER /\ t \in due
    <3>1. Kept(t, s) /\ ~Kept(t, s)'
      BY <2>6, <2>7
    <3>2. ~Served(t, s)'
      BY <2>1, <3>1 DEF Pair
    <3> QED
      BY <1>5, <3>1, <3>2 DEF Moves
  <2>8. CASE ~(s = TIMER /\ t \in due)
    BY <2>1, <2>2, <2>4, <2>5, <2>6, <2>8 DEF Fewer
  <2> QED
    BY <2>7, <2>8
<1>12. Pairs'
  BY <1>1, <1>2, <1>11, QuietPairs
<1> QED
  BY <1>3, <1>6, <1>7, <1>8, <1>9, <1>10, <1>12 DEF ProtoInv, PTypeOK

(* A message of an interrupt handler in its own name concerns no pair. *)
LEMMA InterruptPairs ==
  ASSUME Pairs, BoxType, NEW dest \in Threads, NEW body \in Body,
         Sent(Intr, dest, body) \/ queue' = queue,
         \A t, s : CanCall(t, s) => Fewer(t, s) /\ Stays(t, s)
  PROVE  Pairs'
<1> SUFFICES ASSUME NEW t \in Threads, NEW s \in Servers, CanCall(t, s) PROVE Pair(t, s)'
  BY DEF Pairs
<1>0. t # Intr /\ s # Intr /\ s \in Threads /\ Intr \in Sources
  BY CallTypes DEF Sources
<1>1. Pair(t, s) /\ Fewer(t, s) /\ Stays(t, s)
  BY DEF Pairs
<1>2. Single(t, s)
  BY <1>1 DEF Pair
<1>3. CASE queue' = queue
  BY <1>1, <1>2, <1>3, SameBoxes, PairKept
<1>4. CASE Sent(Intr, dest, body)
  <2>1. /\ Asked(t, s)' <=> Asked(t, s)
        /\ Replied(t, s)' <=> Replied(t, s)
        /\ Single(t, s)'
    BY <1>0, <1>2, <1>4, SentBoxes
  <2> QED
    BY <1>1, <2>1, PairKept
<1> QED
  BY <1>3, <1>4

(* The handler sends one of its messages. *)
LEMMA IrqSendStep ==
  ASSUME ProtoInv, IrqSend, UNCHANGED procs
  PROVE  ProtoInv'
<1>1. /\ IInv /\ PTypeOK /\ ProgsOK /\ BoxesOK /\ RunsAlone /\ KernelThreads /\ ReceivesOK
      /\ UsedOK /\ Pairs /\ BoxType /\ JobType /\ ProcType /\ DriverType
  BY DEF ProtoInv, PTypeOK, IInv, LInv
<1>2. PICK m \in pending : Send(m[1], m[2], m[3]) /\ pending' = pending \ {m}
  BY DEF IrqSend
<1>3. UNCHANGED <<todo, job, arg, rstk, lines, sleepers>>
  BY DEF IrqSend
<1>4. DriverType' /\ JobType' /\ ProcType'
  BY <1>1, <1>2, <1>3, SameProcs DEF DriverType, JobType
<1>5. ProgsOK' /\ todo' \in [Threads -> Seq(Ops)]
  BY <1>1, <1>3 DEF ProgsOK, JobKnown, Notifies, PTypeOK
<1>6. \A t, s : Kept(t, s)' <=> Kept(t, s)
  BY <1>3, KeptSame DEF procs
<1>7. ASSUME Steady, NEW t, NEW s PROVE Fewer(t, s) /\ Stays(t, s)
  <2>1. /\ InFirst(t, s)' <=> InFirst(t, s)
        /\ Taking(t, s)' <=> Taking(t, s)
    BY <1>1, <1>7, SteadyKeeps
  <2>2. AtReceive(t, s)' <=> AtReceive(t, s)
    BY <1>3, <1>7 DEF AtReceive, Steady
  <2>3. /\ Served(t, s)' <=> Served(t, s)
        /\ Returned(t, s)' => Returned(t, s)
    BY <1>2, <1>3 DEF Served, Returned
  <2> QED
    BY <1>6, <2>1, <2>2, <2>3 DEF Fewer, Stays
<1>8. ASSUME Steady PROVE /\ RunsAlone' /\ KernelThreads' /\ ReceivesOK' /\ UsedOK'
                          /\ \A t, s : InFirst(t, s)' <=> InFirst(t, s)
  BY <1>1, <1>8, SteadyKeeps, SameUsed DEF procs
<1>9. CASE \E u \in {"key", "update"} : m = <<Intr, TTY, M(u, None)>>
  <2>1. PICK u \in {"key", "update"} : m = <<Intr, TTY, M(u, None)>>
    BY <1>9
  <2>2. u \in MsgTypes /\ TTY \in Threads /\ Intr \in Sources
    BY Kinds DEF MsgTypes, Sources
  <2>3. M(u, None) \in Body /\ M(u, None).type = u
    BY <2>2, Bodies
  <2>4. Send(Intr, TTY, M(u, None))
    BY <1>2, <2>1
  <2>5. IInv' /\ Steady /\ (Sent(Intr, TTY, M(u, None)) \/ queue' = queue)
    BY <1>1, <2>2, <2>3, <2>4, SendKernel
  <2>6. BoxesOK'
    <3>1. MsgOK(TTY, [src |-> Intr, body |-> M(u, None)])
      BY <2>3 DEF MsgOK
    <3> QED
      BY <1>1, <2>2, <2>3, <2>5, <3>1, SentOK, SameBoxesOK
  <2>7. Pairs'
    BY <1>1, <1>7, <2>2, <2>3, <2>5, InterruptPairs
  <2> QED
    BY <1>4, <1>5, <1>8, <2>5, <2>6, <2>7 DEF ProtoInv, PTypeOK
<1>10. CASE \E c \in Processes : m = <<TIMER, c, M("reply", None)>>
  <2>1. PICK c \in Processes : m = <<TIMER, c, M("reply", None)>>
    BY <1>10
  <2>2. /\ "reply" \in MsgTypes /\ TIMER \in Servers /\ TIMER \in Sources /\ c \in Threads
        /\ CanCall(c, TIMER)
    BY Kinds, Callers DEF MsgTypes, Sources
  <2>3. M("reply", None) \in Body /\ M("reply", None).type = "reply"
    BY <2>2, Bodies
  <2>4. Send(TIMER, c, M("reply", None))
    BY <1>2, <2>1
  <2>5. IInv' /\ Steady /\ (Sent(TIMER, c, M("reply", None)) \/ queue' = queue)
    BY <1>1, <2>2, <2>3, <2>4, SendKernel
  <2>6. BoxesOK'
    <3>1. MsgOK(c, [src |-> TIMER, body |-> M("reply", None)])
      BY <2>2, <2>3 DEF MsgOK
    <3> QED
      BY <1>1, <2>2, <2>3, <2>5, <3>1, SentOK, SameBoxesOK
  <2>7. Pairs'
    <3>1. Pair(c, TIMER) /\ Returned(c, TIMER)
      BY <1>1, <2>1, <2>2 DEF Pairs, Returned
    <3>2. ~Returned(c, TIMER)'
      BY <1>2, <2>1, ServersApart DEF Returned
    <3>3. ~Served(c, TIMER)' /\ ~Kept(c, TIMER)'
      BY <1>3, <1>6, <3>1 DEF Served, Pair
    <3> QED
      BY <1>1, <1>7, <1>8, <2>2, <2>3, <2>5, <3>1, <3>2, <3>3, AnswerPairs
  <2> QED
    BY <1>4, <1>5, <1>8, <2>5, <2>6, <2>7 DEF ProtoInv, PTypeOK
<1> QED
  BY <1>1, <1>2, <1>9, <1>10 DEF DriverType

(* The handler returns. *)
LEMMA IrqReturnStep ==
  ASSUME ProtoInv, IrqReturn, UNCHANGED procs
  PROVE  ProtoInv'
<1>1. /\ IInv /\ PTypeOK /\ ProgsOK /\ BoxesOK /\ RunsAlone /\ KernelThreads /\ ReceivesOK
      /\ UsedOK /\ Pairs /\ JobType /\ ProcType /\ DriverType
  BY DEF ProtoInv, PTypeOK
<1>2. /\ isr /\ isr' = FALSE /\ UNCHANGED <<free, held, user, pc, from, queue>>
      /\ UNCHANGED <<todo, job, arg, rstk, lines, sleepers, pending>>
  BY DEF IrqReturn, IrqEnd, Reschedule, boxes, progs, drivers
<1>3. IInv'
  BY <1>1, CoreKeeps DEF Next, IrqReturn
<1>4. \A t : Gone(t)' <=> Gone(t)
  BY <1>2 DEF Gone
<1>5. \A t \in Threads : ~Gone(t) => pc[t] \notin {"run", "take"} /\ \A s : ~AtReceive(t, s)
  BY <1>1, <1>2, NobodyAtReceive
<1>6. RunsAlone' /\ KernelThreads' /\ ReceivesOK'
  BY <1>1, <1>2, <1>4, <1>5 DEF RunsAlone, KernelThreads, ReceivesOK
<1>7. BoxesOK' /\ ProcType' /\ UsedOK' /\ JobType' /\ DriverType'
  BY <1>1, <1>2, <1>4, SameBoxesOK, SameProcs, SameUsed DEF procs, JobType, DriverType
<1>8. ProgsOK' /\ todo' \in [Threads -> Seq(Ops)]
  BY <1>1, <1>2 DEF ProgsOK, JobKnown, Notifies, PTypeOK
<1>9. ASSUME NEW t, NEW s, CanCall(t, s) PROVE Fewer(t, s) /\ Stays(t, s)
  <2>1. t \in Threads
    BY <1>9, CallTypes
  <2>2. ~AtReceive(t, s)
    BY <1>1, <1>5, <2>1, CurrentNotGone DEF AtReceive
  <2>3. (InFirst(t, s) => InFirst(t, s)') /\ (Taking(t, s) => Taking(t, s)')
    BY <1>2, <1>4 DEF InFirst, Taking
  <2>4. /\ Served(t, s)' <=> Served(t, s)
        /\ Returned(t, s)' <=> Returned(t, s)
        /\ Kept(t, s)' <=> Kept(t, s)
    BY <1>2 DEF Served, Returned, Kept, Waited, procs
  <2> QED
    BY <2>2, <2>3, <2>4 DEF Fewer, Stays
<1>10. Pairs'
  BY <1>1, <1>2, <1>9, QuietPairs
<1> QED
  BY <1>3, <1>6, <1>7, <1>8, <1>10 DEF ProtoInv, PTypeOK
-----------------------------------------------------------------------------
(* Steps of a thread on its own. *)

(* Only the running thread moves, and it has asked nothing. *)
LEMMA OthersStay ==
  ASSUME NEW t, NEW s, t = current => Silent(t, s),
         t # current => pc'[t] = pc[t] /\ from'[t] = from[t] /\ (Gone(t)' <=> Gone(t))
  PROVE  Stays(t, s)
BY DEF Stays, AtReceive, InFirst, Taking

(* The drivers and servers have nothing to do with the step. *)
LEMMA FewerSame ==
  ASSUME UNCHANGED <<job, rstk, sleepers, pending, ppid, is_used, parent_wait>>,
         NEW t, NEW s, Returned(t, s)' => Returned(t, s)
  PROVE  Fewer(t, s)
<1>1. Kept(t, s)' <=> Kept(t, s)
  BY KeptSame
<1> QED
  BY <1>1 DEF Fewer, Served

(* A step that changes nothing the threads can see. *)
LEMMA NothingStep ==
  ASSUME ProtoInv, IInv', Steady, queue' = queue,
         UNCHANGED <<todo, job, arg, rstk, lines, sleepers, pending, ppid, is_used, parent_wait>>,
         new' \in Threads \cup {None}
  PROVE  ProtoInv'
<1>1. /\ PTypeOK /\ ProgsOK /\ BoxesOK /\ RunsAlone /\ KernelThreads /\ ReceivesOK
      /\ UsedOK /\ Pairs /\ JobType /\ ProcType /\ DriverType
  BY DEF ProtoInv, PTypeOK
<1>2. RunsAlone' /\ KernelThreads' /\ ReceivesOK' /\ UsedOK'
  BY <1>1, SteadyKeeps, SameUsed
<1>3. BoxesOK' /\ ProcType' /\ JobType' /\ DriverType'
  BY <1>1, SameBoxesOK DEF ProcType, JobType, DriverType, Waited
<1>4. ProgsOK' /\ todo' \in [Threads -> Seq(Ops)]
  BY <1>1 DEF ProgsOK, JobKnown, Notifies, PTypeOK
<1>5. ASSUME NEW t, NEW s PROVE Fewer(t, s) /\ Stays(t, s)
  <2>1. /\ InFirst(t, s)' <=> InFirst(t, s)
        /\ Taking(t, s)' <=> Taking(t, s)
    BY <1>1, SteadyKeeps
  <2>2. AtReceive(t, s)' <=> AtReceive(t, s)
    BY DEF AtReceive, Steady
  <2>3. Returned(t, s)' <=> Returned(t, s)
    BY DEF Returned
  <2> QED
    BY <2>1, <2>2, <2>3, FewerSame DEF Stays
<1>6. Pairs'
  BY <1>1, <1>5, QuietPairs
<1> QED
  BY <1>2, <1>3, <1>4, <1>6 DEF ProtoInv, PTypeOK

(* A system call, or the first step of a kernel thread. *)
LEMMA EnterStep ==
  ASSUME ProtoInv, Enter,
         UNCHANGED <<job, arg, rstk, lines, sleepers, pending, procs>>,
         \/ todo' = todo
         \/ \E p : /\ todo' = [todo EXCEPT ![current] = p] /\ Prog(current, p)
                   /\ current \in Servers => \A x \in Answering : ~Uses(p, x)
  PROVE  ProtoInv'
<1>1. /\ IInv /\ PTypeOK /\ ProgsOK /\ BoxesOK /\ RunsAlone /\ KernelThreads /\ ReceivesOK
      /\ UsedOK /\ Pairs /\ JobType /\ ProcType /\ DriverType /\ BoxType
  BY DEF ProtoInv, PTypeOK, IInv, LInv
<1>2. /\ Running /\ pc[current] = "enabled" /\ pc' = [pc EXCEPT ![current] = "run"]
      /\ UNCHANGED <<free, held, current, isr, user, from, queue>>
  BY DEF Enter, lists, boxes
<1>3. current \in Threads /\ ~isr
  BY <1>1, <1>2, RunningFacts
<1>4. \A t \in Threads : t # current => pc'[t] = pc[t]
  BY <1>1, <1>2, <1>3 DEF BoxType
<1>5. pc'[current] = "run" /\ pc' \in [Threads -> Points]
  BY <1>1, <1>2, <1>3 DEF BoxType, Points
<1>6. IInv'
  BY <1>1, CoreKeeps DEF Next
<1>7. \A t : Gone(t)' <=> Gone(t)
  BY <1>2 DEF Gone
<1>8. RunsAlone' /\ KernelThreads' /\ ReceivesOK' /\ UsedOK'
  <2>1. RunsAlone'
    BY <1>1, <1>2, <1>3, <1>4, <1>7 DEF RunsAlone
  <2>2. KernelThreads'
    BY <1>1, <1>2, <1>7 DEF KernelThreads
  <2>3. ReceivesOK'
    BY <1>1, <1>2, <1>4, <1>5 DEF ReceivesOK
  <2> QED
    BY <1>1, <1>7, <2>1, <2>2, <2>3, SameUsed DEF procs
<1>9. BoxesOK' /\ ProcType' /\ JobType' /\ DriverType'
  BY <1>1, <1>2, SameBoxesOK, SameProcs DEF JobType, DriverType
<1>10. /\ ProgsOK' /\ todo' \in [Threads -> Seq(Ops)]
       /\ \A t, s : Returned(t, s)' => Returned(t, s)
  <2>1. CASE todo' = todo
    BY <1>1, <2>1 DEF ProgsOK, JobKnown, Notifies, PTypeOK, Returned
  <2>2. ASSUME NEW p, todo' = [todo EXCEPT ![current] = p], Prog(current, p),
               current \in Servers => \A x \in Answering : ~Uses(p, x)
        PROVE  /\ ProgsOK' /\ todo' \in [Threads -> Seq(Ops)]
               /\ \A t, s : Returned(t, s)' => Returned(t, s)
    <3>1. "waitpid" \in Answering
      BY DEF Answering
    <3> QED
      BY <1>1, <1>3, <2>2, <3>1, ProgramChange, ReturnedSame
  <2> QED
    BY <2>1, <2>2
<1>11. ASSUME NEW t, NEW s, CanCall(t, s) PROVE Fewer(t, s) /\ Stays(t, s)
  <2>1. t \in Threads
    BY <1>11, CallTypes
  <2>2. t = current => Silent(t, s)
    BY <1>1, <1>2, <1>11, <2>1, SilentElsewhere
  <2>3. Stays(t, s)
    BY <1>2, <1>4, <1>7, <2>1, <2>2, OthersStay
  <2> QED
    BY <1>10, <2>3, FewerSame DEF procs
<1>12. Pairs'
  BY <1>1, <1>2, <1>11, QuietPairs
<1> QED
  BY <1>6, <1>8, <1>9, <1>10, <1>12 DEF ProtoInv, PTypeOK

(* A process is neither server nor getty. *)
LEMMA UserIsProcess ==
  ASSUME KernelThreads, BoxType, NEW t \in user
  PROVE  t \in Processes
<1>1. t \in Threads
  BY DEF BoxType
<1> QED
  BY <1>1, Kinds DEF KernelThreads

(* Start and Fault. *)
LEMMA StartSteps ==
  ASSUME ProtoInv, UNCHANGED procs, Start \/ Fault
  PROVE  ProtoInv'
<1>1. KernelThreads /\ BoxType /\ IInv /\ ProcType
  BY DEF ProtoInv, PTypeOK, IInv, LInv
<1>2. ASSUME current \in user PROVE current \in Processes /\ current \notin Servers
  BY <1>1, <1>2, UserIsProcess, Kinds
<1>3. CASE Start
  <2>1. Enter /\ UNCHANGED <<job, arg, rstk, lines, sleepers, pending>>
    BY <1>3 DEF Start, drivers
  <2>2. CASE current \in user
    <3>0. PICK call \in UserCalls : \E a \in IF call = "wait" THEN Threads ELSE {None} :
            todo' = [todo EXCEPT ![current] = Syscall(call, a)]
      <4>1. current # FILE
        BY <1>2, <2>2, Kinds
      <4> QED
        BY <1>3, <2>2, <4>1 DEF Start
    <3>1. PICK a \in IF call = "wait" THEN Threads ELSE {None} :
            todo' = [todo EXCEPT ![current] = Syscall(call, a)]
      BY <3>0
    <3>2. call \in {"io", "closed", "readline", "puts", "sleep", "fork", "exec", "exit", "wait"}
      BY ServicesAssumption
    <3>3. Prog(current, Syscall(call, a))
      BY <1>2, <2>2, <3>2, SyscallOK
    <3> QED
      BY <1>2, <2>1, <2>2, <3>1, <3>3, EnterStep
  <2>3. CASE current = create_shell /\ current \notin user
    <3>1. todo' = [todo EXCEPT ![current] = CreateShell]
      <4>1. current # FILE
        BY <2>3, Kinds
      <4> QED
        BY <1>3, <2>3, <4>1 DEF Start
    <3>2. Prog(current, CreateShell) /\ current \notin Servers
      BY <2>3, StartOK, Kinds
    <3> QED
      BY <2>1, <3>1, <3>2, EnterStep
  <2>4. CASE current = FILE /\ current \notin user
    <3>1. current # create_shell
      BY <2>4, Kinds
    <3>2. todo' = [todo EXCEPT ![current] = Call(RAM, "io", None)]
      BY <1>3, <2>4, <3>1 DEF Start
    <3>3. Prog(current, Call(RAM, "io", None))
      BY <2>4, StartOK
    <3>4. "io" \in MsgTypes /\ CanCall(FILE, RAM) /\ Request(RAM, M("io", None)) /\ None \in Threads \cup {None}
      <4>1. "io" \in MsgTypes
        BY DEF MsgTypes
      <4> QED
        BY <4>1, Bodies DEF CanCall, Request
    <3>5. \A x \in Answering : ~Uses(Call(RAM, "io", None), x)
      BY <3>4, ProgCall DEF Answering
    <3> QED
      BY <2>1, <3>2, <3>3, <3>5, EnterStep
  <2>5. CASE current \notin user /\ current # create_shell /\ current # FILE
    <3>1. todo' = todo
      BY <1>3, <2>5 DEF Start
    <3> QED
      BY <2>1, <3>1, EnterStep
  <2> QED
    BY <2>2, <2>3, <2>4, <2>5
<1>4. CASE Fault
  <2>1. current \in user /\ UNCHANGED <<job, arg, rstk, lines, sleepers, pending>>
    BY <1>4 DEF Fault, drivers
  <2>2. CASE Pid(current) > FAULT_PID
    <3>1. Enter /\ todo' = [todo EXCEPT ![current] = Syscall("exit", None)]
      BY <1>4, <2>2 DEF Fault
    <3>2. Prog(current, Syscall("exit", None))
      BY <1>2, <2>1, SyscallOK
    <3> QED
      BY <1>2, <2>1, <3>1, <3>2, EnterStep
  <2>3. CASE ~(Pid(current) > FAULT_PID)
    <3>1. Halt /\ UNCHANGED todo
      BY <1>4, <2>3 DEF Fault
    <3>2. IInv' /\ Steady /\ queue' = queue
      BY <1>1, <3>1, HaltKeeps
    <3>3. UNCHANGED <<ppid, is_used, parent_wait>> /\ new' \in Threads \cup {None}
      BY <1>1 DEF procs, ProcType
    <3> QED
      BY <2>1, <3>1, <3>2, <3>3, NothingStep
  <2> QED
    BY <2>2, <2>3
<1> QED
  BY <1>3, <1>4

(* An operation of the thread's own that moves nobody. *)
LEMMA OwnStep ==
  ASSUME ProtoInv, NEW x, Doing(x), x \notin {"notify", "receive"}, Advance, IInv',
         UNCHANGED <<current, isr, user, pc, from, queue>>, \A t : Gone(t)' <=> Gone(t),
         UNCHANGED <<job, arg, rstk, lines, sleepers, pending, ppid, is_used, parent_wait>>,
         new' \in Threads \cup {None}
  PROVE  ProtoInv'
<1>1. /\ IInv /\ PTypeOK /\ ProgsOK /\ BoxesOK /\ RunsAlone /\ KernelThreads /\ ReceivesOK
      /\ UsedOK /\ Pairs /\ JobType /\ ProcType /\ DriverType
  BY DEF ProtoInv, PTypeOK
<1>2. RunsAlone' /\ KernelThreads' /\ ReceivesOK' /\ UsedOK'
  BY <1>1, SameUsed DEF RunsAlone, KernelThreads, ReceivesOK
<1>3. BoxesOK' /\ ProcType' /\ JobType' /\ DriverType'
  BY <1>1, SameBoxesOK DEF ProcType, JobType, DriverType, Waited
<1>4. /\ ProgsOK' /\ todo' \in [Threads -> Seq(Ops)]
      /\ \A t, s : Returned(t, s)' => Returned(t, s)
  BY Advanced
<1>5. ASSUME NEW t, NEW s, CanCall(t, s) PROVE Fewer(t, s) /\ Stays(t, s)
  <2>1. t = current => Silent(t, s)
    BY <1>5, DoingFacts
  <2>2. Stays(t, s)
    BY <2>1, OthersStay
  <2> QED
    BY <1>4, <2>2, FewerSame
<1>6. Pairs'
  BY <1>1, <1>5, QuietPairs
<1> QED
  BY <1>2, <1>3, <1>4, <1>6 DEF ProtoInv, PTypeOK

(* wakeup() of a thread that has not run, or of none. *)
LEMMA WakeupKeeps ==
  ASSUME IInv, NEW t, WakeupNew(t)
  PROVE  IInv' /\ Steady /\ queue' = queue
<1>1. Steady /\ queue' = queue
  BY DEF WakeupNew, WakeupAll, Steady, boxes
<1>2. CASE t \in Threads
  BY <1>1, <1>2, CoreKeeps DEF Next
<1>3. CASE t \notin Threads
  <2>1. t \notin wait
    BY <1>3 DEF IInv, LInv, ListsOK, RingOK
  <2>2. UNCHANGED vars
    BY <2>1 DEF WakeupNew, WakeupAll, WakeupIn, vars, lists, boxes
  <2> QED
    BY <1>1, <2>2, CoreKeeps
<1> QED
  BY <1>2, <1>3

(* fork() and create_process() take a PCB, or stop when there is none. *)
LEMMA TakePcbStep ==
  ASSUME ProtoInv, DoTake
  PROVE  ProtoInv'
<1>1. /\ Doing("take") /\ UNCHANGED <<job, arg, rstk, lines, sleepers, pending, ppid, is_used, parent_wait>>
  BY DEF DoTake, drivers
<1>2. IInv /\ free \in Seq(Threads) /\ Distinct(free) /\ ProcType
  BY DEF ProtoInv, PTypeOK, IInv, LInv, ListsOK, FreeOK
<1>3. CASE TakePcb /\ new' = Head(free) /\ Advance
  <2>1. /\ free # <<>> /\ held' = held \cup {Head(free)} /\ free' = Tail(free)
        /\ UNCHANGED <<current, isr, user, pc, from, queue>>
    BY <1>3 DEF TakePcb, boxes
  <2>2. new' \in Threads
    BY <1>2, <1>3, <2>1
  <2>3. \A t : Gone(t)' <=> Gone(t)
    <3>1. \A t : On(free, t) <=> On(Tail(free), t) \/ t = Head(free)
      BY <1>2, <2>1, TailOn
    <3> QED
      BY <2>1, <3>1 DEF Gone
  <2>4. IInv'
    BY <1>2, <1>3, CoreKeeps DEF Next
  <2> QED
    BY <1>1, <1>3, <2>1, <2>2, <2>3, <2>4, OwnStep
<1>4. CASE Halt /\ UNCHANGED <<new, todo>>
  <2>1. IInv' /\ Steady /\ queue' = queue
    BY <1>2, <1>4, HaltKeeps
  <2>2. new' \in Threads \cup {None}
    BY <1>2, <1>4 DEF ProcType
  <2> QED
    BY <1>1, <1>4, <2>1, <2>2, NothingStep
<1> QED
  BY <1>3, <1>4 DEF DoTake

(* DoWakeupNew and DoWakeup. *)
LEMMA WakeupSteps ==
  ASSUME ProtoInv, DoWakeupNew \/ DoWakeup
  PROVE  ProtoInv'
<1>1. PICK x, t : x \in {"wakeup", "wakeup_new"} /\ Doing(x) /\ WakeupNew(t)
  BY DEF DoWakeupNew, DoWakeup
<1>2. Advance /\ UNCHANGED <<job, arg, rstk, lines, sleepers, pending, new, ppid, is_used, parent_wait>>
  BY DEF DoWakeupNew, DoWakeup, drivers, procs
<1>3. IInv' /\ Steady /\ queue' = queue
  BY <1>1, WakeupKeeps DEF ProtoInv
<1>4. \A t1 : Gone(t1)' <=> Gone(t1)
  BY <1>3, SteadyKeeps DEF ProtoInv
<1>5. UNCHANGED <<current, isr, user, pc, from, queue>>
  BY <1>3 DEF Steady
<1>6. new' \in Threads \cup {None}
  BY <1>2 DEF ProtoInv, PTypeOK, ProcType
<1> QED
  BY <1>1, <1>2, <1>3, <1>4, <1>5, <1>6, OwnStep

(* A getty begins its next turn. *)
LEMMA GettyStep ==
  ASSUME ProtoInv, GettyLoop, UNCHANGED procs
  PROVE  ProtoInv'
<1>1. /\ IInv /\ PTypeOK /\ ProgsOK /\ BoxesOK /\ RunsAlone /\ KernelThreads /\ ReceivesOK
      /\ UsedOK /\ Pairs /\ JobType /\ ProcType /\ DriverType
  BY DEF ProtoInv, PTypeOK
<1>2. /\ InThread /\ Running /\ pc[current] = "run" /\ current \in Gettys /\ todo[current] = <<>>
      /\ UNCHANGED vars /\ UNCHANGED <<job, arg, rstk, lines, sleepers, pending>>
  BY DEF GettyLoop, InThread, drivers
<1>3. PICK n \in {0, 1} : todo' = [todo EXCEPT ![current] = GettyTurn(n)]
  BY DEF GettyLoop
<1>4. Prog(current, GettyTurn(n)) /\ current \notin Servers /\ current \in Threads
  BY <1>2, StartOK, Kinds
<1>5. /\ ProgsOK' /\ todo' \in [Threads -> Seq(Ops)]
      /\ \A t, s : Returned(t, s)' => Returned(t, s)
  BY <1>1, <1>2, <1>3, <1>4, ProgramChange, ReturnedSame
<1>6. IInv' /\ Steady /\ queue' = queue
  <2>1. IInv'
    BY <1>1, <1>2, CoreKeeps
  <2> QED
    BY <1>2, <2>1 DEF vars, lists, boxes, Steady
<1>7. RunsAlone' /\ KernelThreads' /\ ReceivesOK' /\ UsedOK' /\ \A t : Gone(t)' <=> Gone(t)
  BY <1>1, <1>6, SteadyKeeps, SameUsed DEF procs
<1>8. BoxesOK' /\ ProcType' /\ JobType' /\ DriverType'
  BY <1>1, <1>2, <1>6, SameBoxesOK, SameProcs DEF JobType, DriverType
<1>9. ASSUME NEW t, NEW s, CanCall(t, s) PROVE Fewer(t, s) /\ Stays(t, s)
  <2>1. t = current => Silent(t, s)
    BY <1>1, <1>2, <1>4, <1>9, SilentElsewhere
  <2>2. Stays(t, s)
    BY <1>6, <1>7, <2>1, OthersStay DEF Steady
  <2> QED
    BY <1>2, <1>5, <2>2, FewerSame DEF procs
<1>10. Pairs'
  BY <1>1, <1>6, <1>9, QuietPairs
<1> QED
  BY <1>5, <1>6, <1>7, <1>8, <1>10 DEF ProtoInv, PTypeOK

(* A system call returns. *)
LEMMA ReturnStep ==
  ASSUME ProtoInv, Return, UNCHANGED procs
  PROVE  ProtoInv'
<1>1. /\ IInv /\ PTypeOK /\ ProgsOK /\ BoxesOK /\ RunsAlone /\ KernelThreads /\ ReceivesOK
      /\ UsedOK /\ Pairs /\ JobType /\ ProcType /\ DriverType /\ BoxType
  BY DEF ProtoInv, PTypeOK, IInv, LInv
<1>2. /\ Running /\ pc[current] = "run" /\ todo[current] = <<>>
      /\ pc' = [pc EXCEPT ![current] = "enabled"]
      /\ UNCHANGED <<free, held, isr, user, from, queue>>
      /\ UNCHANGED <<todo, job, arg, rstk, lines, sleepers, pending>>
  BY DEF Return, SyscallReturn, InThread, Reschedule, boxes, progs, drivers
<1>3. current \in Threads /\ ~isr
  BY <1>1, <1>2, RunningFacts
<1>4. \A t \in Threads : t # current => pc'[t] = pc[t]
  BY <1>1, <1>2, <1>3 DEF BoxType
<1>5. pc'[current] = "enabled"
  BY <1>1, <1>2, <1>3 DEF BoxType
<1>6. IInv'
  BY <1>1, CoreKeeps DEF Next, Return
<1>7. \A t : Gone(t)' <=> Gone(t)
  BY <1>2 DEF Gone
<1>8. RunsAlone' /\ KernelThreads' /\ ReceivesOK' /\ UsedOK'
  <2>1. RunsAlone'
    BY <1>1, <1>2, <1>3, <1>4, <1>5, <1>7 DEF RunsAlone
  <2>2. KernelThreads'
    BY <1>1, <1>2, <1>7 DEF KernelThreads
  <2>3. ReceivesOK'
    BY <1>1, <1>2, <1>4, <1>5 DEF ReceivesOK
  <2> QED
    BY <1>1, <1>7, <2>1, <2>2, <2>3, SameUsed DEF procs
<1>9. BoxesOK' /\ ProcType' /\ JobType' /\ DriverType'
  BY <1>1, <1>2, SameBoxesOK, SameProcs DEF JobType, DriverType
<1>10. ProgsOK' /\ todo' \in [Threads -> Seq(Ops)]
  BY <1>1, <1>2 DEF ProgsOK, JobKnown, Notifies, PTypeOK
<1>11. ASSUME NEW t, NEW s, CanCall(t, s) PROVE Fewer(t, s) /\ Stays(t, s)
  <2>1. t \in Threads
    BY <1>11, CallTypes
  <2>2. t = current => Silent(t, s)
    BY <1>1, <1>2, <1>11, <2>1, SilentElsewhere
  <2>3. Stays(t, s)
    BY <1>2, <1>4, <1>7, <2>1, <2>2, OthersStay
  <2>4. Returned(t, s)' <=> Returned(t, s)
    BY <1>2 DEF Returned
  <2> QED
    BY <1>2, <2>3, <2>4, FewerSame DEF procs
<1>12. Pairs'
  BY <1>1, <1>2, <1>11, QuietPairs
<1> QED
  BY <1>6, <1>8, <1>9, <1>10, <1>12 DEF ProtoInv, PTypeOK
-----------------------------------------------------------------------------
(* The life of a process. *)

(* A PCB that is marked used for nobody new. *)
LEMMA FewerWaited ==
  ASSUME UNCHANGED <<rstk, sleepers>>,
         \A c \in Threads : Waited(c)' => Waited(c) /\ ppid'[c] = ppid[c],
         NEW t, NEW s
  PROVE  Kept(t, s)' => Kept(t, s)
BY DEF Kept

(* wrap(): a kernel thread ends. *)
LEMMA FinishStep ==
  ASSUME ProtoInv, DoFinish
  PROVE  ProtoInv'
<1>1. /\ IInv /\ PTypeOK /\ ProgsOK /\ BoxesOK /\ RunsAlone /\ KernelThreads /\ ReceivesOK
      /\ UsedOK /\ Pairs /\ JobType /\ ProcType /\ DriverType
      /\ free \in Seq(Threads) /\ Distinct(free)
  BY DEF ProtoInv, PTypeOK, IInv, LInv, ListsOK, FreeOK
<1>2. /\ Doing("finish") /\ Finish /\ Advance /\ is_used' = [is_used EXCEPT ![current] = FALSE]
      /\ UNCHANGED <<job, arg, rstk, lines, sleepers, pending, new, ppid, parent_wait>>
  BY DEF DoFinish, drivers
<1>3. /\ free' = Append(free, current) /\ UNCHANGED <<held, isr, user, pc, from, queue>>
  BY <1>2 DEF Finish, boxes
<1>4. /\ current \in Processes /\ current \in Threads /\ ~isr /\ ~Gone(current)
      /\ \A s : CanCall(current, s) => Silent(current, s)
  BY <1>2, Performers, DoingFacts
<1>5. IInv'
  BY <1>1, <1>2, CoreKeeps DEF Next
<1>6. \A t : Gone(t)' <=> Gone(t) \/ t = current
  <2>1. \A t : On(Append(free, current), t) <=> On(free, t) \/ t = current
    BY <1>1, <1>4, AppendOn DEF Gone
  <2> QED
    BY <1>3, <2>1 DEF Gone
<1>7. RunsAlone' /\ KernelThreads' /\ ReceivesOK'
  <2>1. RunsAlone'
    BY <1>1, <1>3, <1>6 DEF RunsAlone
  <2>2. KernelThreads'
    BY <1>1, <1>3, <1>4, <1>6, Kinds DEF KernelThreads
  <2>3. ReceivesOK'
    BY <1>1, <1>3 DEF ReceivesOK
  <2> QED
    BY <2>1, <2>2, <2>3
<1>8. /\ is_used' \in [Threads -> BOOLEAN] /\ ~is_used'[current]
      /\ \A t \in Threads : t # current => is_used'[t] = is_used[t]
  BY <1>1, <1>2, <1>4 DEF ProcType
<1>9. \A c \in Threads : Waited(c)' => Waited(c) /\ ppid'[c] = ppid[c]
  BY <1>2, <1>8 DEF Waited
<1>10. UsedOK'
  BY <1>1, <1>6, <1>8 DEF UsedOK
<1>11. ProcType'
  BY <1>1, <1>2, <1>8, <1>9 DEF ProcType
<1>12. BoxesOK' /\ JobType' /\ DriverType'
  BY <1>1, <1>2, <1>3, SameBoxesOK DEF JobType, DriverType
<1>13. /\ ProgsOK' /\ todo' \in [Threads -> Seq(Ops)]
       /\ \A t, s : Returned(t, s)' => Returned(t, s)
  BY <1>2, Advanced
<1>14. ASSUME NEW t, NEW s, CanCall(t, s) PROVE Fewer(t, s) /\ Stays(t, s)
  <2>1. Stays(t, s)
    BY <1>3, <1>4, <1>6, <1>14, OthersStay
  <2>2. Kept(t, s)' => Kept(t, s)
    BY <1>2, <1>9, FewerWaited
  <2> QED
    BY <1>2, <1>13, <2>1, <2>2 DEF Fewer, Served
<1>15. Pairs'
  BY <1>1, <1>3, <1>14, QuietPairs
<1> QED
  BY <1>5, <1>7, <1>10, <1>11, <1>12, <1>13, <1>15 DEF ProtoInv, PTypeOK

(* The box of process p is emptied while p has asked for nothing that will be
   answered. *)
LEMMA ResetPairs ==
  ASSUME Pairs, NEW p \in Processes, queue'[p] = <<>>,
         \A u \in Threads : u # p => queue'[u] = queue[u],
         \A s : CanCall(p, s) => ~Asked(p, s) /\ ~Served(p, s)' /\ ~Kept(p, s)' /\ ~Returned(p, s)',
         \A t, s : CanCall(t, s) /\ t # p => Fewer(t, s) /\ Stays(t, s)
  PROVE  Pairs'
<1> SUFFICES ASSUME NEW t \in Threads, NEW s \in Servers, CanCall(t, s) PROVE Pair(t, s)'
  BY DEF Pairs
<1>0. s \in Threads /\ s # p
  BY Kinds
<1>1. Pair(t, s) /\ Single(t, s)
  BY DEF Pairs, Pair
<1>2. queue'[s] = queue[s]
  BY <1>0
<1>3. /\ Asked(t, s)' <=> Asked(t, s)
      /\ Once(queue[s], t)' <=> Once(queue[s], t)
  BY <1>2 DEF Asked
<1>4. CASE t # p
  <2>1. queue'[t] = queue[t]
    BY <1>4
  <2>2. /\ Replied(t, s)' <=> Replied(t, s)
        /\ Once(queue[t], s)' <=> Once(queue[t], s)
    BY <2>1 DEF Replied
  <2>3. Single(t, s)'
    BY <1>1, <1>3, <2>2 DEF Single
  <2> QED
    BY <1>1, <1>3, <1>4, <2>2, <2>3, PairKept
<1>5. CASE t = p
  <2>1. ~From(<<>>, s) /\ Once(<<>>, s)
    BY DEF From, Once
  <2>2. ~Replied(t, s)' /\ Once(queue[t], s)'
    BY <1>5, <2>1 DEF Replied
  <2>3. Single(t, s)'
    BY <1>1, <1>3, <2>2 DEF Single
  <2>4. ~Asked(t, s)' /\ ~Served(t, s)' /\ ~Kept(t, s)' /\ ~Returned(t, s)'
    BY <1>3, <1>5
  <2> QED
    BY <2>2, <2>3, <2>4 DEF Pair
<1> QED
  BY <1>4, <1>5

(* ... and the messages left are messages as before. *)
LEMMA ResetBoxesOK ==
  ASSUME BoxesOK, NEW p \in Threads, queue'[p] = <<>>,
         \A u \in Threads : u # p => queue'[u] = queue[u]
  PROVE  BoxesOK'
<1> SUFFICES ASSUME NEW t \in Threads, NEW i \in 1..Len(queue'[t])
             PROVE  MsgOK(t, queue'[t][i])
  BY DEF BoxesOK, MsgOK
<1>1. CASE t = p
  BY <1>1
<1>2. CASE t # p
  <2>1. queue'[t] = queue[t]
    BY <1>2
  <2>2. \A j \in 1..Len(queue[t]) : MsgOK(t, queue[t][j])
    BY DEF BoxesOK
  <2> QED
    BY <2>1, <2>2
<1> QED
  BY <1>1, <1>2

(* fork() and create_process() put the new PCB to sleep. *)
LEMMA PlaceStep ==
  ASSUME ProtoInv, DoPlace
  PROVE  ProtoInv'
<1>1. /\ IInv /\ PTypeOK /\ ProgsOK /\ BoxesOK /\ RunsAlone /\ KernelThreads /\ ReceivesOK
      /\ UsedOK /\ Pairs /\ JobType /\ ProcType /\ DriverType /\ BoxType /\ FreeOK(free, held)
  BY DEF ProtoInv, PTypeOK, IInv, LInv, ListsOK
<1>2. /\ Doing("place") /\ PlacePcb(new) /\ Advance
      /\ is_used' = [is_used EXCEPT ![new] = TRUE]
      /\ parent_wait' = [parent_wait EXCEPT ![new] = FALSE]
      /\ ppid' = IF job[PCB_MANAGER] \in user
                 THEN [ppid EXCEPT ![new] = job[PCB_MANAGER]] ELSE ppid
      /\ UNCHANGED <<job, arg, rstk, lines, sleepers, pending, new>>
  BY DEF DoPlace, drivers
<1>3. PICK p : p = new
  OBVIOUS
<1>4. /\ p \in held /\ held' = held \ {p} /\ user' = user \cup {p}
      /\ pc' = [pc EXCEPT ![p] = "enabled"] /\ InitMsg(p)
      /\ UNCHANGED <<free, current, isr, from>>
  BY <1>2, <1>3 DEF PlacePcb
<1>5. p \in Threads /\ Gone(p) /\ ~On(free, p)
  BY <1>1, <1>4 DEF FreeOK, Gone
<1>6. p \in Processes
  BY <1>1, <1>5, Kinds DEF KernelThreads
<1>7. /\ current \in Threads /\ current # p /\ ~isr
      /\ \A s : CanCall(current, s) => Silent(current, s)
  BY <1>2, <1>5, DoingFacts
<1>8. IInv'
  BY <1>1, <1>2, <1>3, <1>5, CoreKeeps DEF Next
<1>9. \A t : Gone(t)' <=> Gone(t) /\ t # p
  BY <1>4, <1>5 DEF Gone
<1>10. pc'[p] = "enabled" /\ \A t \in Threads : t # p => pc'[t] = pc[t]
  BY <1>1, <1>4, <1>5 DEF BoxType
<1>11. queue'[p] = <<>> /\ \A u \in Threads : u # p => queue'[u] = queue[u]
  BY <1>1, <1>4, <1>5 DEF InitMsg, BoxType
<1>12. RunsAlone' /\ KernelThreads' /\ ReceivesOK'
  <2>1. RunsAlone'
    BY <1>1, <1>4, <1>9, <1>10 DEF RunsAlone
  <2>2. KernelThreads'
    BY <1>1, <1>4, <1>6, <1>9, Kinds DEF KernelThreads
  <2>3. ReceivesOK'
    BY <1>1, <1>4, <1>10 DEF ReceivesOK
  <2> QED
    BY <2>1, <2>2, <2>3
<1>13. /\ is_used' \in [Threads -> BOOLEAN] /\ is_used'[p]
       /\ \A t \in Threads : t # p => is_used'[t] = is_used[t]
       /\ parent_wait' \in [Threads -> BOOLEAN] /\ ~parent_wait'[p]
       /\ \A t \in Threads : t # p => parent_wait'[t] = parent_wait[t]
  BY <1>1, <1>2, <1>3, <1>5 DEF ProcType
<1>14. ppid' \in [Threads -> Threads] /\ \A t \in Threads : t # p => ppid'[t] = ppid[t]
  BY <1>1, <1>2, <1>3, <1>5 DEF ProcType, BoxType
<1>15. \A c \in Threads : Waited(c)' => Waited(c) /\ ppid'[c] = ppid[c]
  BY <1>13, <1>14 DEF Waited
<1>16. UsedOK'
  BY <1>1, <1>9, <1>13 DEF UsedOK
<1>17. ProcType'
  BY <1>1, <1>2, <1>13, <1>14, <1>15 DEF ProcType
<1>18. BoxesOK' /\ JobType' /\ DriverType'
  BY <1>1, <1>2, <1>5, <1>11, ResetBoxesOK DEF JobType, DriverType
<1>19. /\ ProgsOK' /\ todo' \in [Threads -> Seq(Ops)]
       /\ \A t, s : Returned(t, s)' => Returned(t, s)
  BY <1>2, Advanced
<1>20. ASSUME NEW t, NEW s, CanCall(t, s) PROVE Fewer(t, s) /\ (t # p => Stays(t, s))
  <2>1. t \in Threads
    BY <1>20, CallTypes
  <2>2. t # p => Stays(t, s)
    BY <1>4, <1>7, <1>9, <1>10, <1>20, <2>1, OthersStay
  <2>3. Kept(t, s)' => Kept(t, s)
    BY <1>2, <1>15, FewerWaited
  <2> QED
    BY <1>2, <1>19, <2>2, <2>3 DEF Fewer, Served
<1>21. ASSUME NEW s, CanCall(p, s)
       PROVE  ~Asked(p, s) /\ ~Served(p, s)' /\ ~Kept(p, s)' /\ ~Returned(p, s)'
  <2>1. Silent(p, s)
    BY <1>1, <1>5, <1>7, <1>21, SilentElsewhere
  <2>2. Fewer(p, s)
    BY <1>20, <1>21
  <2> QED
    BY <2>1, <2>2 DEF Silent, Fewer
<1>22. Pairs'
  BY <1>1, <1>6, <1>11, <1>20, <1>21, ResetPairs
<1> QED
  BY <1>8, <1>12, <1>16, <1>17, <1>18, <1>19, <1>22 DEF ProtoInv, PTypeOK

(* Two programs change at once. *)
LEMMA TwoChange ==
  ASSUME NEW S, NEW f \in [Threads -> S], NEW a \in Threads, NEW b \in Threads, a # b,
         NEW x \in S, NEW y \in S, NEW g, g = [f EXCEPT ![a] = x, ![b] = y]
  PROVE  /\ g \in [Threads -> S] /\ g[a] = x /\ g[b] = y
         /\ \A t \in Threads : t # a /\ t # b => g[t] = f[t]
OBVIOUS

(* exec(): a new image, or the answer that there is none. *)
LEMMA RestartStep ==
  ASSUME ProtoInv, DoRestart
  PROVE  ProtoInv'
<1>0. "restart" \in Answering /\ "restart" \in Ending /\ "reply" \in MsgTypes
  BY DEF Answering, Ending, MsgTypes
<1>1. /\ Doing("restart") /\ JobDone(PCB_MANAGER) /\ UNCHANGED <<rstk, lines, sleepers, pending, procs>>
  BY DEF DoRestart, drivers
<1>2. /\ IInv /\ PTypeOK /\ ProgsOK /\ BoxesOK /\ RunsAlone /\ KernelThreads /\ ReceivesOK
      /\ UsedOK /\ Pairs /\ JobType /\ ProcType /\ DriverType /\ BoxType
  BY DEF ProtoInv, PTypeOK, IInv, LInv
<1>3. current = PCB_MANAGER /\ PCB_MANAGER \in Servers /\ PCB_MANAGER \in Threads
  BY <1>1, Performers, Kinds
<1>4. DriverType'
  BY <1>1, <1>2 DEF DriverType
<1>5. CASE Send(PCB_MANAGER, job[PCB_MANAGER], M("reply", None)) /\ Advance
  <2>1. M("reply", None) \in Body /\ M("reply", None).type = "reply"
    BY <1>0, Bodies
  <2> QED
    BY <1>0, <1>1, <1>3, <1>4, <1>5, <2>1, AnswerStep
<1>6. CASE /\ ExecReset(job[PCB_MANAGER])
           /\ todo' = [todo EXCEPT ![current] = Tail(@), ![job[PCB_MANAGER]] = <<>>]
  <2>1. PICK p : p = job[PCB_MANAGER]
    OBVIOUS
  <2>2. /\ p \in Threads /\ CanCall(p, PCB_MANAGER) /\ Pair(p, PCB_MANAGER)
        /\ Served(p, PCB_MANAGER) /\ InFirst(p, PCB_MANAGER) /\ p # current
        /\ Tail(todo[current]) = <<>>
    BY <1>0, <1>1, <1>3, <2>1, Answerer
  <2>3. p \in Processes
    BY <2>2, Callers
  <2>4. /\ InitMsg(p) /\ pc' = [pc EXCEPT ![p] = "enabled"] /\ user' = user \cup {p}
        /\ UNCHANGED <<free, held, current, isr, from>>
    BY <1>6, <2>1 DEF ExecReset, WakeupAll
  <2>5. IInv'
    BY <1>2, <1>6, <2>1, <2>2, CoreKeeps DEF Next
  <2>6. \A t : Gone(t)' <=> Gone(t)
    BY <2>4 DEF Gone
  <2>7. pc'[p] = "enabled" /\ \A t \in Threads : t # p => pc'[t] = pc[t]
    BY <1>2, <2>2, <2>4 DEF BoxType
  <2>8. queue'[p] = <<>> /\ \A u \in Threads : u # p => queue'[u] = queue[u]
    BY <1>2, <2>2, <2>4 DEF InitMsg, BoxType
  <2>9. RunsAlone' /\ KernelThreads' /\ ReceivesOK' /\ UsedOK'
    <3>1. RunsAlone'
      BY <1>2, <2>4, <2>6, <2>7 DEF RunsAlone
    <3>2. KernelThreads'
      BY <1>2, <2>3, <2>4, <2>6, Kinds DEF KernelThreads
    <3>3. ReceivesOK'
      BY <1>2, <2>4, <2>7 DEF ReceivesOK
    <3> QED
      BY <1>1, <1>2, <2>6, <3>1, <3>2, <3>3, SameUsed DEF procs
  <2>10. /\ JobType'
         /\ \A s \in Servers : s # PCB_MANAGER => job'[s] = job[s] /\ arg'[s] = arg[s]
         /\ \A t \in Threads, s \in Servers :
              (Served(t, s)' => Served(t, s)) /\ ~Served(t, PCB_MANAGER)'
    BY <1>1, <1>2, <1>3, JobDoneFacts
  <2>11. BoxesOK' /\ ProcType'
    BY <1>1, <1>2, <2>2, <2>8, ResetBoxesOK, SameProcs
  <2>12. todo \in [Threads -> Seq(Ops)]
    BY <1>2 DEF PTypeOK
  <2>13. /\ todo' \in [Threads -> Seq(Ops)] /\ todo'[p] = <<>> /\ todo'[current] = <<>>
         /\ \A t \in Threads : t # p /\ t # current => todo'[t] = todo[t]
    <3>1. todo' = [todo EXCEPT ![current] = <<>>, ![p] = <<>>]
      BY <1>6, <2>1, <2>2
    <3>2. <<>> \in Seq(Ops)
      OBVIOUS
    <3> QED
      BY <1>3, <2>2, <2>12, <3>1, <3>2, TwoChange
  <2>14. ProgsOK'
    <3>1. ASSUME NEW t \in Threads
          PROVE  Prog(t, todo'[t]) \/ \E x \in Processes : Notifies(t, x)'
      BY <1>2, <1>3, <2>13, ProgEmpty DEF ProgsOK, Notifies
    <3>2. ASSUME NEW s \in Servers PROVE JobKnown(s)'
      <4>1. \A x : ~Uses(<<>>, x)
        BY DEF Uses
      <4>2. CASE s = PCB_MANAGER
        BY <1>3, <2>13, <4>1, <4>2 DEF JobKnown
      <4>3. CASE s # PCB_MANAGER
        <5>1. s # p /\ s \in Threads
          BY <2>3, Kinds
        <5>2. todo'[s] = todo[s] /\ job'[s] = job[s] /\ arg'[s] = arg[s] /\ JobKnown(s)
          BY <1>2, <1>3, <2>10, <2>13, <4>3, <5>1 DEF ProgsOK
        <5> QED
          BY <5>2 DEF JobKnown
      <4> QED
        BY <4>2, <4>3
    <3> QED
      BY <3>1, <3>2 DEF ProgsOK
  <2>15. \A t, s : Returned(t, s)' => Returned(t, s)
    <3>1. \A t : <<>> # Notify(t)
      BY DEF Notify
    <3> QED
      BY <1>1, <1>3, <2>13, <3>1 DEF Returned
  <2>16. ASSUME NEW t, NEW s, CanCall(t, s) PROVE Fewer(t, s) /\ (t # p => Stays(t, s))
    <3>1. t \in Threads /\ s \in Servers
      BY <2>16, CallTypes
    <3>2. t = current => Silent(t, s)
      BY <1>1, <2>16, DoingFacts
    <3>3. t # p => Stays(t, s)
      BY <2>4, <2>6, <2>7, <3>1, <3>2, OthersStay
    <3>4. Kept(t, s)' => Kept(t, s)
      BY <1>1, KeptSame DEF procs
    <3> QED
      BY <2>10, <2>15, <3>1, <3>3, <3>4 DEF Fewer
  <2>17. ASSUME NEW s, CanCall(p, s)
         PROVE  ~Asked(p, s) /\ ~Served(p, s)' /\ ~Kept(p, s)' /\ ~Returned(p, s)'
    <3>1. Fewer(p, s) /\ s \in Servers
      BY <2>16, <2>17, CallTypes
    <3>2. CASE s = PCB_MANAGER
      BY <2>2, <2>10, <3>1, <3>2 DEF Pair, Fewer
    <3>3. CASE s # PCB_MANAGER
      <4>1. ~AtReceive(p, s) /\ ~InFirst(p, s) /\ ~Taking(p, s)
        BY <2>2, <3>3 DEF AtReceive, InFirst, Taking
      <4>2. Silent(p, s)
        BY <1>2, <2>2, <2>17, <3>1, <4>1, SilentOutside DEF Pairs
      <4> QED
        BY <3>1, <4>2 DEF Silent, Fewer
    <3> QED
      BY <3>2, <3>3
  <2>18. Pairs'
    BY <1>2, <2>3, <2>8, <2>16, <2>17, ResetPairs
  <2> QED
    BY <1>4, <2>5, <2>9, <2>10, <2>11, <2>13, <2>14, <2>18 DEF ProtoInv, PTypeOK
<1> QED
  BY <1>5, <1>6 DEF DoRestart

(* exit(): the PCB is free, and a parent that waits will be told. *)
LEMMA ReleaseStep ==
  ASSUME ProtoInv, DoRelease
  PROVE  ProtoInv'
<1>0. "release" \in Answering /\ "release" # "receive"
  BY DEF Answering
<1>1. /\ Doing("release") /\ JobDone(PCB_MANAGER)
      /\ UNCHANGED <<rstk, lines, sleepers, pending, new, ppid, parent_wait>>
  BY DEF DoRelease, drivers
<1>2. /\ IInv /\ PTypeOK /\ ProgsOK /\ BoxesOK /\ RunsAlone /\ KernelThreads /\ ReceivesOK
      /\ UsedOK /\ Pairs /\ JobType /\ ProcType /\ DriverType /\ BoxType
      /\ free \in Seq(Threads) /\ Distinct(free)
  BY DEF ProtoInv, PTypeOK, IInv, LInv, ListsOK, FreeOK
<1>3. current = PCB_MANAGER /\ PCB_MANAGER \in Servers /\ PCB_MANAGER \in Threads
  BY <1>1, Performers, Kinds
<1>4. PICK p : p = job[PCB_MANAGER]
  OBVIOUS
<1>5. PICK w : w = ppid[p]
  OBVIOUS
<1>6. /\ p \in Threads /\ CanCall(p, PCB_MANAGER) /\ Pair(p, PCB_MANAGER)
      /\ Served(p, PCB_MANAGER) /\ InFirst(p, PCB_MANAGER) /\ p # current
  BY <1>0, <1>1, <1>3, <1>4, Answerer
<1>7. p \in Processes /\ ~Gone(p) /\ is_used[p]
  BY <1>2, <1>6, Callers DEF InFirst, UsedOK
<1>8. /\ ReleasePcb(p) /\ is_used' = [is_used EXCEPT ![p] = FALSE]
      /\ todo' = [todo EXCEPT ![p] = <<>>,
                              ![current] = IF parent_wait[p] THEN Notify(w) ELSE <<>>]
  BY <1>4, <1>5 DEF DoRelease, Notify
<1>9. /\ free' = Append(free, p) /\ UNCHANGED <<held, current, isr, user, pc, from, queue>>
  BY <1>8 DEF ReleasePcb, boxes
<1>10. IInv'
  BY <1>2, <1>6, <1>8, CoreKeeps DEF Next
<1>11. \A t : Gone(t)' <=> Gone(t) \/ t = p
  <2>1. \A t : On(Append(free, p), t) <=> On(free, t) \/ t = p
    BY <1>2, <1>6, <1>7, AppendOn DEF Gone
  <2> QED
    BY <1>9, <2>1 DEF Gone
<1>12. RunsAlone' /\ KernelThreads' /\ ReceivesOK'
  <2>1. RunsAlone'
    BY <1>2, <1>9, <1>11 DEF RunsAlone
  <2>2. KernelThreads'
    BY <1>2, <1>7, <1>9, <1>11, Kinds DEF KernelThreads
  <2>3. ReceivesOK'
    BY <1>2, <1>9 DEF ReceivesOK
  <2> QED
    BY <2>1, <2>2, <2>3
<1>13. /\ is_used' \in [Threads -> BOOLEAN] /\ ~is_used'[p]
       /\ \A t \in Threads : t # p => is_used'[t] = is_used[t]
  BY <1>2, <1>6, <1>8 DEF ProcType
<1>14. \A c \in Threads : Waited(c)' => c # p /\ Waited(c) /\ ppid'[c] = ppid[c]
  BY <1>1, <1>13 DEF Waited
<1>15. UsedOK'
  BY <1>2, <1>11, <1>13 DEF UsedOK
<1>16. ProcType'
  BY <1>1, <1>2, <1>13, <1>14 DEF ProcType
<1>17. /\ JobType'
       /\ \A s \in Servers : s # PCB_MANAGER => job'[s] = job[s] /\ arg'[s] = arg[s]
       /\ \A t \in Threads, s \in Servers :
            (Served(t, s)' => Served(t, s)) /\ ~Served(t, PCB_MANAGER)'
  BY <1>1, <1>2, <1>3, JobDoneFacts
<1>18. BoxesOK' /\ DriverType'
  BY <1>1, <1>2, <1>9, SameBoxesOK DEF DriverType
<1>19. parent_wait[p] => /\ Waited(p) /\ w \in Processes /\ w # p
                         /\ CanCall(w, PCB_MANAGER) /\ Kept(w, PCB_MANAGER)
  <2> SUFFICES ASSUME parent_wait[p]
               PROVE  /\ Waited(p) /\ w \in Processes /\ w # p
                      /\ CanCall(w, PCB_MANAGER) /\ Kept(w, PCB_MANAGER)
    OBVIOUS
  <2>1. Waited(p)
    BY <1>7 DEF Waited
  <2>2. w \in Processes
    BY <1>2, <1>5, <1>6, <2>1 DEF ProcType
  <2>3. Kept(w, PCB_MANAGER)
    BY <1>5, <1>6, <2>1 DEF Kept
  <2>4. w # p
    BY <1>6, <2>3 DEF Pair
  <2> QED
    BY <2>1, <2>2, <2>3, <2>4, Callers
<1>20. PICK q : q = IF parent_wait[p] THEN Notify(w) ELSE <<>>
  OBVIOUS
<1>21. q \in Seq(Ops)
  <2>1. w \in Processes => <<"notify", w>> \in Ops
    BY Kinds DEF Ops
  <2>2. \A x \in Ops : <<x>> \in Seq(Ops)
    OBVIOUS
  <2>3. w \in Processes => Notify(w) \in Seq(Ops)
    BY <2>1, <2>2 DEF Notify
  <2> QED
    BY <1>19, <1>20, <2>3
<1>22. /\ todo' \in [Threads -> Seq(Ops)] /\ todo'[p] = <<>> /\ todo'[current] = q
       /\ \A t \in Threads : t # p /\ t # current => todo'[t] = todo[t]
  <2>1. todo \in [Threads -> Seq(Ops)] /\ todo' = [todo EXCEPT ![p] = <<>>, ![current] = q]
    BY <1>2, <1>8, <1>20 DEF PTypeOK
  <2>2. <<>> \in Seq(Ops)
    OBVIOUS
  <2> QED
    BY <1>3, <1>6, <1>21, <2>1, <2>2, TwoChange
<1>23. ProgsOK'
  <2>1. ASSUME NEW t \in Threads
        PROVE  Prog(t, todo'[t]) \/ \E x \in Processes : Notifies(t, x)'
    <3>1. CASE t = current
      BY <1>3, <1>19, <1>20, <1>22, <3>1, ProgEmpty DEF Notifies
    <3>2. CASE t # current
      BY <1>2, <1>3, <1>22, <3>2, ProgEmpty DEF ProgsOK, Notifies
    <3> QED
      BY <3>1, <3>2
  <2>2. ASSUME NEW s \in Servers PROVE JobKnown(s)'
    <3>1. \A x \in Answering : ~Uses(q, x)
      <4>1. \A x : ~Uses(<<>>, x)
        BY DEF Uses
      <4>2. \A x : Uses(Notify(w), x) => x = "notify"
        BY DEF Uses, Notify
      <4> QED
        BY <1>20, <4>1, <4>2 DEF Answering
    <3>2. "waitpid" \in Answering
      BY DEF Answering
    <3>3. CASE s = PCB_MANAGER
      BY <1>3, <1>22, <3>1, <3>2, <3>3 DEF JobKnown
    <3>4. CASE s # PCB_MANAGER
      <4>1. s # p /\ s \in Threads
        BY <1>7, Kinds
      <4>2. todo'[s] = todo[s] /\ job'[s] = job[s] /\ arg'[s] = arg[s] /\ JobKnown(s)
        BY <1>2, <1>3, <1>17, <1>22, <3>4, <4>1 DEF ProgsOK
      <4> QED
        BY <4>2 DEF JobKnown
    <3> QED
      BY <3>3, <3>4
  <2> QED
    BY <2>1, <2>2 DEF ProgsOK
<1>24. \A t, s : Returned(t, s)' =>
         Returned(t, s) \/ (s = PCB_MANAGER /\ t = w /\ parent_wait[p])
  <2>1. \A t : <<>> # Notify(t)
    BY DEF Notify
  <2>2. \A t : Notify(w) = Notify(t) => t = w
    BY DEF Notify
  <2> QED
    BY <1>1, <1>3, <1>20, <1>22, <2>1, <2>2 DEF Returned
<1>25. ASSUME NEW t, NEW s, CanCall(t, s)
       PROVE  (Fewer(t, s) /\ Stays(t, s)) \/ Moves(t, s) \/ Silent(t, s)'
  <2>1. t \in Threads /\ s \in Servers /\ Pair(t, s)
    BY <1>2, <1>25, CallTypes DEF Pairs
  <2>2. t = current => Silent(t, s)
    BY <1>0, <1>1, <1>25, DoingFacts
  <2>3. Kept(t, s)' => Kept(t, s)
    BY <1>1, <1>14, FewerWaited
  <2>4. t # p => Stays(t, s)
    BY <1>9, <1>11, <2>2, OthersStay
  <2>5. CASE t = p
    <3>1. Silent(t, s) \/ s = PCB_MANAGER
      <4>1. ASSUME s # PCB_MANAGER PROVE Silent(t, s)
        <5>1. ~AtReceive(t, s) /\ ~InFirst(t, s) /\ ~Taking(t, s)
          BY <1>6, <2>5, <4>1 DEF AtReceive, InFirst, Taking
        <5> QED
          BY <2>1, <5>1, SilentOutside
      <4> QED
        BY <4>1
    <3>2. ~Asked(t, s) /\ ~Kept(t, s) /\ ~Returned(t, s) /\ ~Replied(t, s) /\ ~Served(t, s)'
      BY <1>6, <1>17, <2>1, <2>5, <3>1 DEF Pair, Silent
    <3>3. /\ Asked(t, s)' <=> Asked(t, s)
          /\ Replied(t, s)' <=> Replied(t, s)
      BY <1>9, SameBoxes
    <3>4. ~Returned(t, s)'
      BY <1>19, <1>24, <2>5, <3>2
    <3> QED
      BY <2>3, <3>2, <3>3, <3>4 DEF Silent
  <2>6. CASE t = w /\ s = PCB_MANAGER /\ parent_wait[p] /\ t # p
    <3>1. Kept(t, s) /\ Waited(p)
      BY <1>19, <2>6
    <3>2. ~Kept(t, s)'
      <4>1. ASSUME NEW c \in Threads, Waited(c)', ppid'[c] = t PROVE FALSE
        <5>1. c # p /\ Waited(c) /\ ppid[c] = ppid[p]
          BY <1>5, <1>14, <2>6, <4>1
        <5> QED
          BY <1>2, <1>6, <3>1, <5>1 DEF ProcType
      <4> QED
        BY <2>6, <4>1, ServersApart DEF Kept
    <3>3. ~Served(t, s)'
      BY <1>17, <2>1, <2>6
    <3>4. InFirst(t, s) => InFirst(t, s)'
      BY <1>9, <1>11, <2>6 DEF InFirst
    <3> QED
      BY <3>1, <3>2, <3>3, <3>4 DEF Moves
  <2>7. CASE t # p /\ ~(t = w /\ s = PCB_MANAGER /\ parent_wait[p])
    BY <1>17, <1>24, <2>1, <2>3, <2>4, <2>7 DEF Fewer
  <2> QED
    BY <2>5, <2>6, <2>7
<1>26. Pairs'
  BY <1>2, <1>9, <1>25, QuietPairs
<1> QED
  BY <1>10, <1>12, <1>15, <1>16, <1>17, <1>18, <1>22, <1>23, <1>26 DEF ProtoInv, PTypeOK

(* exit(), second part: the parent that waits is told. *)
LEMMA NotifyStep ==
  ASSUME ProtoInv, DoNotify
  PROVE  ProtoInv'
<1>1. /\ Doing("notify") /\ Advance /\ Send(PCB_MANAGER, Head(todo[current])[2], M("reply", None))
      /\ UNCHANGED <<job, arg, rstk, lines, sleepers, pending, procs>>
  BY DEF DoNotify, drivers
<1>2. /\ IInv /\ PTypeOK /\ ProgsOK /\ BoxesOK /\ RunsAlone /\ KernelThreads /\ ReceivesOK
      /\ UsedOK /\ Pairs /\ JobType /\ ProcType /\ DriverType /\ BoxType
  BY DEF ProtoInv, PTypeOK, IInv, LInv
<1>3. PICK p \in Processes : Notifies(current, p)
  BY <1>1, DoingFacts
<1>4. /\ current = PCB_MANAGER /\ PCB_MANAGER \in Servers /\ PCB_MANAGER \in Threads
      /\ PCB_MANAGER \in Sources /\ todo[PCB_MANAGER] = Notify(p)
  BY <1>3, Kinds DEF Notifies, Sources
<1>5. Head(Notify(p))[2] = p /\ Tail(Notify(p)) = <<>>
  BY DEF Notify
<1>6. CanCall(p, PCB_MANAGER) /\ p \in Threads
  BY Callers, Kinds
<1>7. M("reply", None) \in Body /\ M("reply", None).type = "reply"
  <2>1. "reply" \in MsgTypes
    BY DEF MsgTypes
  <2> QED
    BY <2>1, Bodies
<1>8. IInv' /\ Steady /\ (Sent(PCB_MANAGER, p, M("reply", None)) \/ queue' = queue)
  <2>1. Send(PCB_MANAGER, p, M("reply", None))
    BY <1>1, <1>4, <1>5
  <2> QED
    BY <1>2, <1>4, <1>6, <1>7, <2>1, SendKernel
<1>9. /\ RunsAlone' /\ KernelThreads' /\ ReceivesOK' /\ UsedOK'
      /\ \A t, s : InFirst(t, s)' <=> InFirst(t, s)
  BY <1>1, <1>2, <1>8, SteadyKeeps, SameUsed DEF procs
<1>10. BoxesOK' /\ JobType' /\ ProcType' /\ DriverType'
  <2>1. MsgOK(p, [src |-> PCB_MANAGER, body |-> M("reply", None)])
    BY <1>6, <1>7 DEF MsgOK
  <2>2. BoxesOK'
    BY <1>2, <1>4, <1>6, <1>7, <1>8, <2>1, SentOK, SameBoxesOK
  <2> QED
    BY <1>1, <1>2, <2>2, SameProcs DEF JobType, DriverType
<1>11. todo' = [todo EXCEPT ![PCB_MANAGER] = <<>>] /\ todo'[PCB_MANAGER] = <<>>
  BY <1>1, <1>2, <1>4, <1>5 DEF Advance, PTypeOK
<1>12. /\ ProgsOK' /\ todo' \in [Threads -> Seq(Ops)]
       /\ \A t, s : Returned(t, s)' => Returned(t, s)
  <2>1. \A x : ~Uses(<<>>, x)
    BY DEF Uses
  <2> QED
    BY <1>1, <1>2, <1>4, <1>11, <2>1, ProgEmpty, ProgramChange, ReturnedSame
<1>13. \A t, s : Kept(t, s)' <=> Kept(t, s)
  BY <1>1, KeptSame DEF procs
<1>14. Pairs'
  <2>1. Pair(p, PCB_MANAGER) /\ Returned(p, PCB_MANAGER)
    BY <1>2, <1>4, <1>6 DEF Pairs, Returned
  <2>2. ~Returned(p, PCB_MANAGER)'
    BY <1>11, ServersApart DEF Returned, Notify
  <2>3. ~Served(p, PCB_MANAGER)' /\ ~Kept(p, PCB_MANAGER)'
    BY <1>1, <1>13, <2>1 DEF Served, Pair
  <2>4. ASSUME NEW t, NEW s, CanCall(t, s) PROVE Fewer(t, s) /\ Stays(t, s)
    <3>1. Stays(t, s)
      BY <1>1, <1>8, <2>4, SteadyStays
    <3> QED
      BY <1>1, <1>12, <1>13, <3>1 DEF Fewer, Served
  <2> QED
    BY <1>2, <1>6, <1>7, <1>8, <1>9, <2>1, <2>2, <2>3, <2>4, AnswerPairs
<1> QED
  BY <1>8, <1>9, <1>10, <1>12, <1>14 DEF ProtoInv, PTypeOK

(* handle_waitpid(): the parent of a live child is kept, another is answered. *)
LEMMA WaitpidStep ==
  ASSUME ProtoInv, DoWaitpid
  PROVE  ProtoInv'
<1>0. "waitpid" \in Answering /\ "reply" \in MsgTypes
  BY DEF Answering, MsgTypes
<1>1. /\ Doing("waitpid") /\ Advance /\ JobDone(PCB_MANAGER)
      /\ UNCHANGED <<rstk, lines, sleepers, pending, new, ppid, is_used>>
  BY DEF DoWaitpid, drivers
<1>2. current = PCB_MANAGER
  BY <1>1, Performers
<1>3. PICK j : j = job[PCB_MANAGER]
  OBVIOUS
<1>4. PICK c : c = arg[PCB_MANAGER]
  OBVIOUS
<1>5. c \in Threads /\ CanCall(j, PCB_MANAGER) /\ Pair(j, PCB_MANAGER) /\ Served(j, PCB_MANAGER)
  BY <1>0, <1>1, <1>2, <1>3, <1>4, Answerer
<1>6. DriverType /\ ProcType /\ j \in Processes
  BY <1>5, Callers DEF ProtoInv, PTypeOK
<1>7. DriverType'
  BY <1>1, <1>6 DEF DriverType
<1>8. CASE /\ ~(ppid[c] = j /\ is_used[c])
           /\ Send(PCB_MANAGER, j, M("reply", None)) /\ UNCHANGED parent_wait
  <2>1. M("reply", None) \in Body /\ M("reply", None).type = "reply"
    BY <1>0, Bodies
  <2> QED
    BY <1>0, <1>1, <1>2, <1>3, <1>7, <1>8, <2>1, AnswerStep DEF procs
<1>9. CASE /\ ppid[c] = j /\ is_used[c]
           /\ parent_wait' = [parent_wait EXCEPT ![c] = TRUE] /\ UNCHANGED vars
  <2>1. \A d \in Threads : ~(Waited(d) /\ ppid[d] = j)
    BY <1>5 DEF Pair, Kept
  <2>2. /\ parent_wait' \in [Threads -> BOOLEAN]
        /\ \A d \in Threads : d # c => parent_wait'[d] = parent_wait[d]
    BY <1>5, <1>6, <1>9 DEF ProcType
  <2>3. \A d \in Threads : Waited(d)' => d = c \/ Waited(d)
    BY <1>1, <2>2 DEF Waited
  <2>4. ProcType'
    <3>1. \A d \in Threads : Waited(d)' => ppid'[d] \in Processes
      BY <1>1, <1>6, <1>9, <2>3 DEF ProcType
    <3>2. \A d, e \in Threads : Waited(d)' /\ Waited(e)' /\ ppid'[d] = ppid'[e] => d = e
      BY <1>1, <1>6, <1>9, <2>1, <2>3 DEF ProcType
    <3> QED
      BY <1>1, <1>6, <2>2, <3>1, <3>2 DEF ProcType
  <2>5. ASSUME NEW t, NEW s, CanCall(t, s), t # j \/ s # PCB_MANAGER, Kept(t, s)'
        PROVE  Kept(t, s)
    BY <1>1, <1>9, <2>3, <2>5 DEF Kept
  <2> QED
    BY <1>0, <1>1, <1>2, <1>3, <1>7, <1>9, <2>4, <2>5, LaterStep
<1> QED
  BY <1>3, <1>4, <1>8, <1>9 DEF DoWaitpid
-----------------------------------------------------------------------------
(* Requests and the receive() that follows. *)

(* A thread asks. *)
LEMMA AskStep ==
  ASSUME ProtoInv, DoSend, UNCHANGED procs
  PROVE  ProtoInv'
<1>1. /\ Doing("send") /\ Send(current, Head(todo[current])[2], Head(todo[current])[3])
      /\ Advance /\ UNCHANGED <<job, arg, rstk, lines, sleepers, pending>>
  BY DEF DoSend, drivers
<1>2. /\ IInv /\ PTypeOK /\ ProgsOK /\ BoxesOK /\ RunsAlone /\ KernelThreads /\ ReceivesOK
      /\ UsedOK /\ Pairs /\ JobType /\ ProcType /\ DriverType /\ BoxType
  BY DEF ProtoInv, PTypeOK, IInv, LInv
<1>3. /\ current \in Threads /\ todo[current] # <<>> /\ Head(todo[current]) = todo[current][1]
      /\ todo[current][1][1] = "send" /\ Prog(current, todo[current])
      /\ \A s : CanCall(current, s) => Silent(current, s)
      /\ pc[current] = "run"
  BY <1>1, DoingFacts
<1>4. /\ OpOK(current, todo[current][1]) /\ Tail(todo[current]) # <<>>
      /\ Tail(todo[current])[1] = <<"receive", todo[current][1][2]>>
  BY <1>3, ProgTail
<1>5. PICK v : v = todo[current][1][2]
  OBVIOUS
<1>6. PICK b : b = todo[current][1][3]
  OBVIOUS
<1>7. PICK c : c = current
  OBVIOUS
<1>8. CanCall(c, v) /\ b \in Body /\ Request(v, b)
  BY <1>3, <1>4, <1>5, <1>6, <1>7 DEF OpOK
<1>9. v \in Threads /\ c \in Threads /\ c \in Sources
  BY <1>8, CallTypes DEF Sources
<1>10. IInv' /\ Steady /\ (Sent(c, v, b) \/ queue' = queue)
  <2>1. Send(c, v, b)
    BY <1>1, <1>3, <1>5, <1>6, <1>7
  <2> QED
    BY <1>2, <1>8, <1>9, <2>1, SendKernel
<1>11. RunsAlone' /\ KernelThreads' /\ ReceivesOK' /\ UsedOK'
  BY <1>2, <1>10, SteadyKeeps, SameUsed DEF procs
<1>12. BoxesOK' /\ JobType' /\ ProcType' /\ DriverType'
  <2>1. MsgOK(v, [src |-> c, body |-> b])
    BY <1>8 DEF MsgOK
  <2>2. BoxesOK'
    BY <1>2, <1>8, <1>9, <1>10, <2>1, SentOK, SameBoxesOK
  <2> QED
    BY <1>1, <1>2, <2>2, SameProcs DEF JobType, DriverType
<1>13. /\ ProgsOK' /\ todo' \in [Threads -> Seq(Ops)]
       /\ \A t, s : Returned(t, s)' => Returned(t, s)
       /\ todo'[current] = Tail(todo[current])
  BY <1>1, Advanced
<1>14. AtReceive(c, v)'
  BY <1>3, <1>4, <1>5, <1>7, <1>10, <1>13 DEF AtReceive, Steady
<1>15. ASSUME NEW t, NEW s, CanCall(t, s) PROVE Fewer(t, s) /\ Stays(t, s)
  <2>1. Stays(t, s)
    BY <1>1, <1>10, <1>15, SteadyStays
  <2> QED
    BY <1>1, <1>13, <2>1, FewerSame DEF procs
<1>16. Pairs'
  <2>1. Silent(c, v) /\ Fewer(c, v)
    BY <1>3, <1>7, <1>8, <1>15
  <2> QED
    BY <1>2, <1>8, <1>10, <1>14, <1>15, <2>1, AskPairs
<1> QED
  BY <1>10, <1>11, <1>12, <1>13, <1>16 DEF ProtoInv, PTypeOK

(* receive() enters its first P(). *)
LEMMA FirstKeeps ==
  ASSUME ProtoInv, NEW v, ReceiveFirst(v),
         UNCHANGED <<job, arg, rstk, lines, sleepers, pending, procs>>,
         IF v = ANY THEN current \in Servers ELSE CanCall(current, v),
         ProgsOK', todo' \in [Threads -> Seq(Ops)],
         \A t, s : Returned(t, s)' => Returned(t, s),
         \A s : CanCall(current, s) /\ s # v => Silent(current, s)
  PROVE  ProtoInv'
<1>1. /\ IInv /\ PTypeOK /\ BoxesOK /\ RunsAlone /\ KernelThreads /\ ReceivesOK
      /\ UsedOK /\ Pairs /\ JobType /\ ProcType /\ DriverType /\ BoxType
  BY DEF ProtoInv, PTypeOK, IInv, LInv
<1>2. /\ Running /\ pc[current] = "run"
      /\ pc' = [pc EXCEPT ![current] = "second"] /\ from' = [from EXCEPT ![current] = v]
      /\ UNCHANGED <<free, held, isr, user, queue>>
  BY DEF ReceiveFirst, InThread, P, Sleep, lists
<1>3. current \in Threads /\ ~isr /\ ~Gone(current)
  BY <1>1, <1>2, RunningFacts
<1>4. PICK c : c = current
  OBVIOUS
<1>5. /\ c \in Threads /\ pc'[c] = "second" /\ from'[c] = v
      /\ \A t \in Threads : t # c => pc'[t] = pc[t] /\ from'[t] = from[t]
  BY <1>1, <1>2, <1>3, <1>4 DEF BoxType
<1>6. v \in Sems
  BY CallTypes DEF Sems, Sources
<1>7. IInv'
  BY <1>1, <1>6, CoreKeeps DEF Next
<1>8. \A t : Gone(t)' <=> Gone(t)
  BY <1>2 DEF Gone
<1>9. RunsAlone' /\ KernelThreads' /\ ReceivesOK' /\ UsedOK'
  <2>1. ASSUME NEW t \in Threads, ~Gone(t)' PROVE pc'[t] \notin {"run", "take"}
    <3>1. CASE t = c
      BY <1>5, <3>1
    <3>2. CASE t # c
      BY <1>1, <1>4, <1>5, <1>8, <2>1, <3>2 DEF RunsAlone
    <3> QED
      BY <3>1, <3>2
  <2>2. RunsAlone'
    BY <2>1 DEF RunsAlone
  <2>3. KernelThreads'
    BY <1>1, <1>2, <1>8 DEF KernelThreads
  <2>4. ReceivesOK'
    <3> SUFFICES ASSUME NEW t \in Threads, pc'[t] \in {"second", "take"}
                 PROVE  IF from'[t] = ANY THEN t \in Servers ELSE CanCall(t, from'[t])
      BY DEF ReceivesOK
    <3>1. CASE t = c
      BY <1>4, <1>5, <3>1
    <3>2. CASE t # c
      BY <1>1, <1>5, <3>2 DEF ReceivesOK
    <3> QED
      BY <3>1, <3>2
  <2> QED
    BY <1>1, <1>8, <2>2, <2>3, <2>4, SameUsed DEF procs
<1>10. BoxesOK' /\ ProcType' /\ JobType' /\ DriverType'
  BY <1>1, <1>2, SameBoxesOK, SameProcs DEF JobType, DriverType
<1>11. ASSUME NEW t, NEW s, CanCall(t, s) PROVE Fewer(t, s) /\ Stays(t, s)
  <2>1. t \in Threads
    BY <1>11, CallTypes
  <2>2. CASE t = c /\ s = v
    <3>1. InFirst(t, s)'
      BY <1>3, <1>4, <1>5, <1>8, <2>2 DEF InFirst
    <3>2. ~Taking(t, s)
      BY <1>2, <1>4, <2>2 DEF Taking
    <3> QED
      BY <3>1, <3>2, FewerSame DEF Stays, procs
  <2>3. CASE ~(t = c /\ s = v)
    <3>1. t = current => Silent(t, s)
      BY <1>4, <1>11, <2>3
    <3>2. Stays(t, s)
      BY <1>4, <1>5, <1>8, <2>1, <3>1, OthersStay
    <3> QED
      BY <3>2, FewerSame DEF procs
  <2> QED
    BY <2>2, <2>3
<1>12. Pairs'
  BY <1>1, <1>2, <1>11, QuietPairs
<1> QED
  BY <1>7, <1>9, <1>10, <1>12 DEF ProtoInv, PTypeOK

(* ... of the server that was asked, or of anybody at the top of a server's loop. *)
LEMMA ReceiveSteps ==
  ASSUME ProtoInv, UNCHANGED procs, DoReceive \/ Loop
  PROVE  ProtoInv'
<1>1. CASE DoReceive
  <2>1. /\ Doing("receive") /\ ReceiveFirst(Head(todo[current])[2])
        /\ Advance /\ UNCHANGED <<job, arg, rstk, lines, sleepers, pending>>
    BY <1>1 DEF DoReceive, drivers
  <2>2. /\ current \in Threads /\ todo[current] # <<>> /\ Head(todo[current]) = todo[current][1]
        /\ todo[current][1][1] = "receive" /\ pc[current] = "run"
    BY <2>1, DoingFacts
  <2>3. OpOK(current, todo[current][1])
    BY <2>1, Performers
  <2>4. PICK v : v = todo[current][1][2]
    OBVIOUS
  <2>5. CanCall(current, v) /\ v # ANY
    BY <2>2, <2>3, <2>4, CallTypes DEF OpOK
  <2>6. /\ ProgsOK' /\ todo' \in [Threads -> Seq(Ops)]
        /\ \A t, s : Returned(t, s)' => Returned(t, s)
    BY <2>1, Advanced
  <2>7. ASSUME NEW s, CanCall(current, s), s # v PROVE Silent(current, s)
    <3>1. ~AtReceive(current, s)
      BY <2>4, <2>7 DEF AtReceive
    <3>2. ~InFirst(current, s) /\ ~Taking(current, s)
      BY <2>2 DEF InFirst, Taking
    <3>3. Pair(current, s)
      BY <2>7, CallTypes DEF ProtoInv, Pairs
    <3> QED
      BY <3>1, <3>2, <3>3, SilentOutside
  <2> QED
    BY <2>1, <2>2, <2>4, <2>5, <2>6, <2>7, FirstKeeps
<1>2. CASE Loop
  <2>1. /\ InThread /\ current \in Servers /\ todo[current] = <<>> /\ ReceiveFirst(ANY)
        /\ UNCHANGED <<todo, job, arg, rstk, lines, sleepers, pending>>
    BY <1>2 DEF Loop, progs, drivers
  <2>2. ProgsOK' /\ todo' \in [Threads -> Seq(Ops)]
    BY <2>1 DEF ProtoInv, ProgsOK, JobKnown, Notifies, PTypeOK
  <2>3. \A t, s : Returned(t, s)' => Returned(t, s)
    BY <2>1 DEF Returned
  <2>4. ASSUME NEW s, CanCall(current, s) PROVE Silent(current, s)
    BY <2>1, <2>4, CallTypes, SilentElsewhere DEF ProtoInv, InThread
  <2> QED
    BY <2>1, <2>2, <2>3, <2>4, FirstKeeps
<1> QED
  BY <1>1, <1>2

(* A thread past its first P() has the answer it asked for. *)
LEMMA FirstPassed ==
  ASSUME ProtoInv, Running, pc[current] = "second", from[current] # ANY
  PROVE  Replied(current, from[current])
<1>1. /\ BoxType /\ current \in Threads /\ InRing(current) /\ BoxOK(current)
  BY RunningFacts DEF ProtoInv, IInv, LInv
<1>2. queue[current] \in Seq(Msgs) /\ from[current] \in Sems
  BY <1>1 DEF BoxType
<1>3. Owes(current, from[current])
  BY DEF Owes
<1>4. token[current][from[current]] >= 0
  BY <1>1, <1>2 DEF BoxOK, Rests
<1>5. token[current][from[current]] = Arrived(current, from[current]) - 1
  BY <1>1, <1>2, <1>3, TokenBounds DEF BoxOK
<1>6. Arrived(current, from[current]) \in Nat /\ Arrived(current, from[current]) > 0
  BY <1>1, <1>2, <1>4, <1>5, ArrivedType
<1>7. Count(queue[current], from[current]) > 0
  BY <1>6 DEF Arrived
<1>8. \E i \in 1..Len(queue[current]) : queue[current][i].src = from[current]
  BY <1>2, <1>7, CountType
<1> QED
  BY <1>8 DEF Replied, From

(* receive() enters its second P(), which does not block. *)
LEMMA ClaimStep ==
  ASSUME ProtoInv, Claim, UNCHANGED procs
  PROVE  ProtoInv'
<1>1. /\ IInv /\ PTypeOK /\ ProgsOK /\ BoxesOK /\ RunsAlone /\ KernelThreads /\ ReceivesOK
      /\ UsedOK /\ Pairs /\ JobType /\ ProcType /\ DriverType /\ BoxType
  BY DEF ProtoInv, PTypeOK, IInv, LInv
<1>2. /\ Running /\ pc[current] = "second" /\ ReceiveSecond
      /\ UNCHANGED <<todo, job, arg, rstk, lines, sleepers, pending>>
  BY DEF Claim, ReceiveSecond, progs, drivers
<1>3. current \in Threads /\ InRing(current) /\ BoxOK(current) /\ ~isr /\ ~Gone(current)
  BY <1>1, <1>2, RunningFacts
<1>4. PICK a : a = IF from[current] = ANY THEN Head(queue[current]).src ELSE ANY
  OBVIOUS
<1>5. queue[current] # <<>> /\ token[current][a] > 0
  BY <1>1, <1>2, <1>3, <1>4, SecondReady
<1>6. /\ UNCHANGED <<free, held, current, isr, user, queue, from>>
      /\ pc' = [pc EXCEPT ![current] = "take"]
  BY <1>2, <1>4, <1>5 DEF ReceiveSecond, P, lists
<1>7. /\ pc'[current] = "take" /\ from'[current] = from[current]
      /\ \A t \in Threads : t # current => pc'[t] = pc[t] /\ from'[t] = from[t]
  BY <1>1, <1>3, <1>6 DEF BoxType
<1>8. IInv'
  BY <1>1, <1>2, CoreKeeps DEF Next
<1>9. \A t : Gone(t)' <=> Gone(t)
  BY <1>6 DEF Gone
<1>10. RunsAlone' /\ KernelThreads' /\ ReceivesOK' /\ UsedOK'
  <2>1. RunsAlone'
    BY <1>1, <1>3, <1>6, <1>7, <1>9 DEF RunsAlone
  <2>2. KernelThreads'
    BY <1>1, <1>6, <1>9 DEF KernelThreads
  <2>3. ReceivesOK'
    <3> SUFFICES ASSUME NEW t \in Threads, pc'[t] \in {"second", "take"}
                 PROVE  IF from[t] = ANY THEN t \in Servers ELSE CanCall(t, from[t])
      BY <1>6 DEF ReceivesOK
    <3>1. pc[t] \in {"second", "take"}
      BY <1>2, <1>7
    <3> QED
      BY <1>1, <3>1 DEF ReceivesOK
  <2> QED
    BY <1>1, <1>9, <2>1, <2>2, <2>3, SameUsed DEF procs
<1>11. BoxesOK' /\ ProcType' /\ JobType' /\ DriverType'
  BY <1>1, <1>2, <1>6, SameBoxesOK, SameProcs DEF JobType, DriverType
<1>12. ProgsOK' /\ todo' \in [Threads -> Seq(Ops)]
  BY <1>1, <1>2 DEF ProgsOK, JobKnown, Notifies, PTypeOK
<1>13. ASSUME NEW t, NEW s, CanCall(t, s) PROVE Fewer(t, s) /\ Stays(t, s)
  <2>1. t \in Threads /\ s # ANY
    BY <1>13, CallTypes
  <2>2. Stays(t, s)
    <3>1. CASE t = current /\ s = from[current]
      <4>1. Replied(t, s)
        BY <1>2, <2>1, <3>1, FirstPassed
      <4>2. Taking(t, s)'
        BY <1>3, <1>6, <1>7, <1>9, <3>1 DEF Taking
      <4>3. ~AtReceive(t, s) /\ ~Taking(t, s)
        BY <1>2, <3>1 DEF AtReceive, Taking
      <4> QED
        BY <4>1, <4>2, <4>3 DEF Stays
    <3>2. CASE t = current /\ s # from[current]
      <4>1. ~AtReceive(t, s) /\ ~Taking(t, s) /\ ~InFirst(t, s)
        BY <1>2, <3>2 DEF AtReceive, Taking, InFirst
      <4> QED
        BY <4>1 DEF Stays
    <3>3. CASE t # current
      BY <1>7, <1>9, <2>1, <3>3, OthersStay
    <3> QED
      BY <3>1, <3>2, <3>3
  <2>3. Returned(t, s)' <=> Returned(t, s)
    BY <1>2 DEF Returned
  <2> QED
    BY <1>2, <2>2, <2>3, FewerSame DEF procs
<1>14. Pairs'
  BY <1>1, <1>6, <1>13, QuietPairs
<1> QED
  BY <1>8, <1>10, <1>11, <1>12, <1>14 DEF ProtoInv, PTypeOK

(* A message is taken out of the box of c. *)
LEMMA TakenBoxes ==
  ASSUME BoxType, NEW c \in Threads, NEW k \in 1..Len(queue[c]),
         queue' = [queue EXCEPT ![c] = RemoveAt(@, k)]
  PROVE  /\ \A t, s : CanCall(t, s) => (Asked(t, s)' => Asked(t, s))
         /\ \A t, s : CanCall(t, s) => (Replied(t, s)' => Replied(t, s))
         /\ \A t, s : CanCall(t, s) => (Single(t, s) => Single(t, s)')
         /\ Once(queue[c], queue[c][k].src) => ~From(queue'[c], queue[c][k].src)
         /\ BoxesOK => BoxesOK'
<1>1. queue[c] \in Seq(Msgs) /\ queue \in [Threads -> Seq(Msgs)]
  BY DEF BoxType
<1>2. /\ queue'[c] = RemoveAt(queue[c], k)
      /\ \A t \in Threads : t # c => queue'[t] = queue[t]
  BY <1>1
<1>3. /\ \A x : From(queue'[c], x) => From(queue[c], x)
      /\ \A x : Once(queue[c], x) => Once(queue'[c], x)
      /\ Once(queue[c], queue[c][k].src) => ~From(queue'[c], queue[c][k].src)
      /\ \A i \in 1..Len(queue'[c]) : \E j \in 1..Len(queue[c]) : queue'[c][i] = queue[c][j]
  BY <1>1, <1>2, FromRemove, SMTT(60)
<1>4. ASSUME NEW t \in Threads
      PROVE  /\ \A x : From(queue'[t], x) => From(queue[t], x)
             /\ \A x : Once(queue[t], x) => Once(queue'[t], x)
  BY <1>2, <1>3
<1>5. ASSUME NEW t, NEW s, CanCall(t, s)
      PROVE  /\ Asked(t, s)' => Asked(t, s)
             /\ Replied(t, s)' => Replied(t, s)
             /\ Single(t, s) => Single(t, s)'
  <2>1. t \in Threads /\ s \in Threads
    BY <1>5, CallTypes
  <2>2. (From(queue'[s], t) => From(queue[s], t)) /\ (From(queue'[t], s) => From(queue[t], s))
    BY <1>4, <2>1
  <2>3. (Once(queue[s], t) => Once(queue'[s], t)) /\ (Once(queue[t], s) => Once(queue'[t], s))
    BY <1>4, <2>1
  <2> QED
    BY <2>2, <2>3 DEF Asked, Replied, Single, From, Once
<1>6. ASSUME BoxesOK, NEW t \in Threads, NEW i \in 1..Len(queue'[t])
      PROVE  MsgOK(t, queue'[t][i])
  <2>1. CASE t # c
    BY <1>2, <1>6, <2>1 DEF BoxesOK
  <2>2. CASE t = c
    <3>1. PICK j \in 1..Len(queue[c]) : queue'[c][i] = queue[c][j]
      BY <1>3, <1>6, <2>2
    <3>2. MsgOK(c, queue[c][j])
      BY <1>6 DEF BoxesOK
    <3> QED
      BY <2>2, <3>1, <3>2
  <2> QED
    BY <2>1, <2>2
<1>7. BoxesOK => BoxesOK'
  BY <1>6 DEF BoxesOK, MsgOK
<1> QED
  BY <1>3, <1>5, <1>7

(* What a thread that takes a message finds: the one it asked for, or at the
   top of a server's loop the oldest one, which is no answer. *)
LEMMA TakeFinds ==
  ASSUME ProtoInv, ReceiveTake
  PROVE  /\ current \in Threads /\ ~Gone(current) /\ ~isr /\ pc[current] = "take" /\ IInv'
         /\ Found(queue[current], from[current]) \in 1..Len(queue[current])
         /\ queue' = [queue EXCEPT ![current] = RemoveAt(@, Found(@, from[current]))]
         /\ pc' = [pc EXCEPT ![current] = "run"] /\ from' = [from EXCEPT ![current] = ANY]
         /\ UNCHANGED <<free, held, current, isr, user>>
         /\ LET m == queue[current][Found(queue[current], from[current])]
            IN /\ m \in Msgs /\ MsgOK(current, m)
               /\ from[current] = ANY => /\ current \in Servers
                                         /\ ~(CanCall(current, m.src) /\ m.body.type = "reply")
               /\ from[current] # ANY => CanCall(current, from[current]) /\ m.src = from[current]
<1>1. /\ IInv /\ BoxesOK /\ ReceivesOK /\ Pairs /\ BoxType
      /\ Running /\ pc[current] = "take"
  BY DEF ProtoInv, IInv, LInv, ReceiveTake
<1>2. current \in Threads /\ BoxOK(current) /\ ~isr /\ ~Gone(current)
  BY <1>1, RunningFacts
<1>3. queue[current] \in Seq(Msgs) /\ from[current] \in Sems
  BY <1>1, <1>2 DEF BoxType
<1>4. /\ queue[current] # <<>>
      /\ from[current] # ANY => \E i \in 1..Len(queue[current]) : queue[current][i].src = from[current]
  BY <1>1, <1>2, TakeReady
<1>5. PICK k : k = Found(queue[current], from[current])
  OBVIOUS
<1>6. k \in 1..Len(queue[current]) /\ (from[current] # ANY => queue[current][k].src = from[current])
  BY <1>3, <1>4, <1>5, FoundProperties
<1>7. PICK m : m = queue[current][k]
  OBVIOUS
<1>8. m \in Msgs /\ MsgOK(current, m)
  BY <1>1, <1>2, <1>3, <1>6, <1>7 DEF BoxesOK
<1>9. IF from[current] = ANY THEN current \in Servers ELSE CanCall(current, from[current])
  BY <1>1, <1>2 DEF ReceivesOK
<1>10. ASSUME from[current] = ANY, CanCall(current, m.src) PROVE FALSE
  <2>1. From(queue[current], m.src)
    BY <1>6, <1>7 DEF From
  <2>2. Silent(current, m.src)
    BY <1>1, <1>2, <1>10, SilentElsewhere
  <2> QED
    BY <2>1, <2>2 DEF Silent, Replied
<1>11. /\ queue' = [queue EXCEPT ![current] = RemoveAt(@, Found(@, from[current]))]
       /\ pc' = [pc EXCEPT ![current] = "run"] /\ from' = [from EXCEPT ![current] = ANY]
       /\ UNCHANGED <<free, held, current, isr, user>>
  BY <1>4 DEF ReceiveTake, lists
<1>12. IInv'
  BY <1>1, CoreKeeps DEF Next
<1> QED
  BY <1>1, <1>2, <1>5, <1>6, <1>7, <1>8, <1>9, <1>10, <1>11, <1>12

(* What taking a message does not concern. *)
LEMMA TakeKeeps ==
  ASSUME ProtoInv, ReceiveTake,
         UNCHANGED <<rstk, lines, sleepers, pending, procs>>
  PROVE  /\ RunsAlone' /\ KernelThreads' /\ ReceivesOK' /\ UsedOK' /\ BoxesOK'
         /\ DriverType' /\ ProcType'
         /\ \A t \in Threads : t # current =>
              pc'[t] = pc[t] /\ from'[t] = from[t] /\ (Gone(t)' <=> Gone(t))
         /\ \A t, s : Kept(t, s)' <=> Kept(t, s)
<1>1. /\ IInv /\ BoxesOK /\ RunsAlone /\ KernelThreads /\ ReceivesOK
      /\ UsedOK /\ ProcType /\ DriverType /\ BoxType
  BY DEF ProtoInv, PTypeOK, IInv, LInv
<1>2. /\ current \in Threads /\ ~Gone(current) /\ ~isr
      /\ Found(queue[current], from[current]) \in 1..Len(queue[current])
      /\ queue' = [queue EXCEPT ![current] = RemoveAt(@, Found(@, from[current]))]
      /\ pc' = [pc EXCEPT ![current] = "run"] /\ from' = [from EXCEPT ![current] = ANY]
      /\ UNCHANGED <<free, held, current, isr, user>>
  BY TakeFinds
<1>3. /\ pc'[current] = "run"
      /\ \A t \in Threads : t # current => pc'[t] = pc[t] /\ from'[t] = from[t]
  BY <1>1, <1>2 DEF BoxType
<1>4. \A t : Gone(t)' <=> Gone(t)
  BY <1>2 DEF Gone
<1>5. RunsAlone' /\ KernelThreads' /\ ReceivesOK' /\ UsedOK'
  <2>1. RunsAlone'
    BY <1>1, <1>2, <1>3, <1>4 DEF RunsAlone
  <2>2. KernelThreads'
    BY <1>1, <1>2, <1>4 DEF KernelThreads
  <2>3. ReceivesOK'
    BY <1>1, <1>2, <1>3 DEF ReceivesOK
  <2> QED
    BY <1>1, <1>4, <2>1, <2>2, <2>3, SameUsed DEF procs
<1>6. BoxesOK'
  <2>1. queue' = [queue EXCEPT ![current] = RemoveAt(@, Found(queue[current], from[current]))]
    BY <1>2
  <2> QED
    BY <1>1, <1>2, <2>1, TakenBoxes
<1>7. DriverType' /\ ProcType'
  BY <1>1, SameProcs DEF DriverType
<1>8. \A t, s : Kept(t, s)' <=> Kept(t, s)
  BY KeptSame DEF procs
<1> QED
  BY <1>3, <1>4, <1>5, <1>6, <1>7, <1>8

(* Only syscall_fork() wakes a child up. *)
LEMMA WakeupOfProcess ==
  ASSUME ProgsOK, NEW c \in Threads, todo[c] = << <<"wakeup">> >>
  PROVE  c \in Processes
<1>1. PICK p : p = todo[c]
  OBVIOUS
<1>2. p # <<>> /\ p[1] = <<"wakeup">> /\ p[1][1] = "wakeup"
  BY <1>1
<1>3. Prog(c, p) \/ \E x : p = Notify(x)
  BY <1>1 DEF ProgsOK, Notifies
<1>4. \A x : p # Notify(x)
  BY <1>2 DEF Notify
<1>5. OpOK(c, p[1])
  BY <1>2, <1>3, <1>4, ProgTail
<1> QED
  BY <1>2, <1>5 DEF OpOK

(* A client takes the answer: nothing of its request is left. *)
LEMMA AnswerTaken ==
  ASSUME ProtoInv, Take, UNCHANGED procs, from[current] # ANY
  PROVE  ProtoInv'
<1>1. /\ IInv /\ PTypeOK /\ ProgsOK /\ Pairs /\ JobType /\ BoxType
      /\ ReceiveTake /\ UNCHANGED <<rstk, lines, sleepers, pending>>
  BY DEF ProtoInv, PTypeOK, IInv, LInv, Take, drivers
<1>2. PICK c : c = current
  OBVIOUS
<1>3. PICK v : v = from[c]
  OBVIOUS
<1>4. PICK k : k = Found(queue[c], v)
  OBVIOUS
<1>5. PICK m : m = queue[c][k]
  OBVIOUS
<1>6. /\ c \in Threads /\ ~Gone(c) /\ pc[c] = "take" /\ k \in 1..Len(queue[c])
      /\ m \in Msgs /\ CanCall(c, v) /\ m.src = v /\ IInv'
      /\ queue' = [queue EXCEPT ![c] = RemoveAt(@, k)]
  BY <1>1, <1>2, <1>3, <1>4, <1>5, TakeFinds
<1>7. UNCHANGED <<job, arg>> /\ v # ANY
  BY <1>2, <1>3 DEF Take
<1>8. /\ ProgsOK' /\ todo' \in [Threads -> Seq(Ops)]
      /\ \A t, s : Returned(t, s)' => Returned(t, s)
  <2>1. CASE todo[c] = << <<"wakeup">> >>
    <3>1. PICK a : a = m.body.arg
      OBVIOUS
    <3>2. todo' = [todo EXCEPT ![c] = << <<"wakeup", a>> >>]
      BY <1>2, <1>3, <1>4, <1>5, <1>7, <2>1, <3>1 DEF Take
    <3>3. a \in Threads \cup {None}
      BY <1>6, <3>1, Bodies DEF Msgs
    <3>4. c \in Processes
      BY <1>1, <1>6, <2>1, WakeupOfProcess
    <3>5. Prog(c, << <<"wakeup", a>> >>)
      BY <3>3, <3>4, WakeupOK
    <3>6. c \notin Servers
      BY <3>4, Kinds
    <3>7. PICK q : q = << <<"wakeup", a>> >>
      OBVIOUS
    <3>8. todo' = [todo EXCEPT ![c] = q] /\ Prog(c, q)
      BY <3>2, <3>5, <3>7
    <3> QED
      BY <1>1, <1>6, <1>7, <3>6, <3>8, ProgramChange, ReturnedSame
  <2>2. CASE todo[c] # << <<"wakeup">> >>
    <3>1. todo' = todo
      BY <1>2, <1>3, <1>7, <2>2 DEF Take
    <3> QED
      BY <1>1, <1>7, <3>1 DEF ProgsOK, JobKnown, Notifies, PTypeOK, Returned
  <2> QED
    BY <2>1, <2>2
<1>9. /\ RunsAlone' /\ KernelThreads' /\ ReceivesOK' /\ UsedOK' /\ BoxesOK'
      /\ DriverType' /\ ProcType' /\ JobType'
  BY <1>1, <1>7, TakeKeeps DEF JobType
<1>10. ASSUME NEW t \in Threads, NEW s \in Servers, CanCall(t, s) PROVE Pair(t, s)'
  <2>1. Pair(t, s) /\ Single(t, s)
    BY <1>1, <1>10 DEF Pairs, Pair
  <2>2. /\ Asked(t, s)' => Asked(t, s)
        /\ Replied(t, s)' => Replied(t, s)
        /\ Single(t, s)'
    BY <1>1, <1>6, <1>10, <2>1, TakenBoxes
  <2>3. Fewer(t, s)
    BY <1>1, <1>7, <1>8, FewerSame DEF procs
  <2>4. CASE t = c /\ s = v
    <3>1. Replied(t, s)
      BY <1>5, <1>6, <2>4 DEF Replied, From
    <3>2. Once(queue[c], queue[c][k].src)
      BY <1>5, <1>6, <2>1, <2>4 DEF Single
    <3>3. ~From(queue'[c], v)
      BY <1>1, <1>5, <1>6, <3>2, TakenBoxes
    <3>4. ~Replied(t, s)'
      BY <2>4, <3>3 DEF Replied, From
    <3>5. Silent(t, s)'
      BY <2>1, <2>2, <2>3, <3>1, <3>4 DEF Pair, Silent, Fewer
    <3> QED
      BY <2>2, <3>5 DEF Pair, Silent
  <2>5. CASE ~(t = c /\ s = v)
    <3>1. ASSUME t = c PROVE Silent(t, s)
      <4>1. ~AtReceive(t, s) /\ ~InFirst(t, s) /\ ~Taking(t, s)
        BY <1>3, <1>6, <2>5, <3>1 DEF AtReceive, InFirst, Taking
      <4> QED
        BY <2>1, <4>1, SilentOutside
    <3>2. t # current => pc'[t] = pc[t] /\ from'[t] = from[t] /\ (Gone(t)' <=> Gone(t))
      BY <1>1, TakeKeeps
    <3>3. Stays(t, s)
      BY <1>2, <3>1, <3>2, OthersStay
    <3> QED
      BY <2>1, <2>2, <2>3, <3>3, PairKept
  <2> QED
    BY <2>4, <2>5
<1>11. Pairs'
  BY <1>10 DEF Pairs
<1> QED
  BY <1>6, <1>8, <1>9, <1>11 DEF ProtoInv, PTypeOK

(* A server takes a message: the request of a client becomes its job. *)
LEMMA RequestTaken ==
  ASSUME ProtoInv, Take, UNCHANGED procs, from[current] = ANY
  PROVE  ProtoInv'
<1>1. /\ IInv /\ PTypeOK /\ ProgsOK /\ Pairs /\ JobType /\ BoxType
      /\ ReceiveTake /\ UNCHANGED <<rstk, lines, sleepers, pending>>
  BY DEF ProtoInv, PTypeOK, IInv, LInv, Take, drivers
<1>2. PICK c : c = current
  OBVIOUS
<1>3. PICK k : k = Found(queue[c], ANY)
  OBVIOUS
<1>4. PICK m : m = queue[c][k]
  OBVIOUS
<1>5. /\ c \in Threads /\ ~Gone(c) /\ pc[c] = "take" /\ k \in 1..Len(queue[c])
      /\ m \in Msgs /\ MsgOK(c, m) /\ IInv' /\ c \in Servers
      /\ ~(CanCall(c, m.src) /\ m.body.type = "reply")
      /\ queue' = [queue EXCEPT ![c] = RemoveAt(@, k)]
  BY <1>1, <1>2, <1>3, <1>4, TakeFinds
<1>6. PICK x : x = m.src
  OBVIOUS
<1>7. PICK b : b = m.body
  OBVIOUS
<1>8. /\ x \in Sources /\ b \in Body /\ b.type \in MsgTypes /\ b.arg \in Threads \cup {None}
  BY <1>5, <1>6, <1>7, Bodies DEF Msgs
<1>9. PICK p : p = Program(c, b.type)
  OBVIOUS
<1>10. /\ todo' = [todo EXCEPT ![c] = p] /\ job' = [job EXCEPT ![c] = x]
       /\ arg' = [arg EXCEPT ![c] = b.arg]
  <2>1. todo[c] # << <<"wakeup">> >>
    BY <1>1, <1>5, WakeupOfProcess, Kinds
  <2> QED
    BY <1>2, <1>3, <1>4, <1>6, <1>7, <1>9, <2>1 DEF Take
<1>11. \/ x = Intr /\ c = TTY /\ b.type \in {"key", "update"}
       \/ CanCall(x, c) /\ Request(c, b)
  BY <1>5, <1>6, <1>7 DEF MsgOK
<1>12. /\ Prog(c, p)
       /\ \A y \in Answering : Uses(p, y) => x \in Threads
       /\ Uses(p, "waitpid") => b.arg \in Threads
  <2>1. CASE x = Intr /\ c = TTY /\ b.type \in {"key", "update"}
    <3>1. "waitpid" \in Answering
      BY DEF Answering
    <3> QED
      BY <1>9, <2>1, <3>1, InterruptProgram
  <2>2. CASE CanCall(x, c) /\ Request(c, b)
    BY <1>5, <1>8, <1>9, <2>2, ProgramOK, CallTypes
  <2> QED
    BY <1>11, <2>1, <2>2
<1>13. /\ job \in [Servers -> Sources \cup {None}] /\ arg \in [Servers -> Threads \cup {None}]
  BY <1>1 DEF JobType
<1>14. /\ job'[c] = x /\ arg'[c] = b.arg
       /\ \A s \in Servers : s # c => job'[s] = job[s] /\ arg'[s] = arg[s]
       /\ job' \in [Servers -> Sources \cup {None}] /\ arg' \in [Servers -> Threads \cup {None}]
  BY <1>5, <1>8, <1>10, <1>13
<1>15. ProgsOK' /\ todo' \in [Threads -> Seq(Ops)]
  BY <1>1, <1>5, <1>10, <1>12, <1>14, ProgramChange
<1>16. \A t, s : Returned(t, s)' => Returned(t, s)
  BY <1>1, <1>5, <1>10, <1>12, ReturnedSame
<1>17. JobType'
  <2>1. ASSUME NEW s \in Servers, job'[s] \in Threads PROVE CanCall(job'[s], s)
    <3>1. CASE s = c
      BY <1>11, <1>14, <2>1, <3>1, KernelAssumption
    <3>2. CASE s # c
      BY <1>1, <1>14, <2>1, <3>2 DEF JobType
    <3> QED
      BY <3>1, <3>2
  <2> QED
    BY <1>14, <2>1 DEF JobType
<1>18. /\ RunsAlone' /\ KernelThreads' /\ ReceivesOK' /\ UsedOK' /\ BoxesOK'
       /\ DriverType' /\ ProcType'
       /\ \A t \in Threads : t # c =>
            pc'[t] = pc[t] /\ from'[t] = from[t] /\ (Gone(t)' <=> Gone(t))
       /\ \A t, s : Kept(t, s)' <=> Kept(t, s)
  BY <1>1, <1>2, TakeKeeps
<1>19. ASSUME NEW t \in Threads, NEW s \in Servers, CanCall(t, s) PROVE Pair(t, s)'
  <2>1. Pair(t, s) /\ Single(t, s)
    BY <1>1, <1>19 DEF Pairs, Pair
  <2>2. /\ Asked(t, s)' => Asked(t, s)
        /\ Replied(t, s)' => Replied(t, s)
        /\ Single(t, s)'
    BY <1>1, <1>5, <1>19, <2>1, TakenBoxes
  <2>3. (Kept(t, s)' => Kept(t, s)) /\ (Returned(t, s)' => Returned(t, s))
    BY <1>16, <1>18
  <2>4. CASE t = x /\ s = c
    <3>1. Asked(t, s)
      BY <1>4, <1>5, <1>6, <2>4 DEF Asked, From
    <3>2. Once(queue[c], queue[c][k].src)
      BY <1>4, <1>6, <2>1, <2>4 DEF Single
    <3>3. ~From(queue'[c], x)
      BY <1>1, <1>4, <1>5, <1>6, <3>2, TakenBoxes
    <3>4. ~Asked(t, s)'
      BY <2>4, <3>3 DEF Asked, From
    <3>5. t # c
      BY <1>19, <2>4, CallTypes
    <3>6. InFirst(t, s)
      BY <1>2, <2>1, <3>1, <3>5 DEF Pair, AtReceive
    <3>7. InFirst(t, s)'
      BY <1>18, <3>5, <3>6 DEF InFirst
    <3> QED
      BY <2>1, <2>2, <2>3, <3>1, <3>4, <3>7 DEF Pair
  <2>5. CASE ~(t = x /\ s = c)
    <3>1. Served(t, s)' => Served(t, s)
      BY <1>14, <2>5 DEF Served
    <3>2. ASSUME t = c PROVE Silent(t, s)
      BY <1>1, <1>2, <1>5, <1>19, <3>2, SilentElsewhere
    <3>3. Stays(t, s)
      BY <1>2, <1>18, <3>2, OthersStay
    <3> QED
      BY <2>1, <2>2, <2>3, <3>1, <3>3, PairKept DEF Fewer
  <2> QED
    BY <2>4, <2>5
<1>20. Pairs'
  BY <1>19 DEF Pairs
<1> QED
  BY <1>5, <1>15, <1>17, <1>18, <1>20 DEF ProtoInv, PTypeOK
-----------------------------------------------------------------------------
(* The invariant holds for ever. *)

(* ... when init_proc() has started the threads. *)
LEMMA InitProto == SInit => ProtoInv
<1> SUFFICES ASSUME SInit PROVE ProtoInv
  OBVIOUS
<1>1. Init /\ IInv
  BY InitKeeps, InitBoxes DEF SInit, IInv
<1>2. /\ wait = {} /\ held = {} /\ user = {} /\ free = Pool
      /\ \A t \in Threads : pc[t] = "enabled" /\ queue[t] = <<>>
  BY <1>1 DEF Init
<1>3. /\ todo = [t \in Threads |-> <<>>] /\ new = None
      /\ job = [t \in Servers |-> None] /\ arg = [t \in Servers |-> None]
      /\ rstk = [c \in Consoles |-> <<>>] /\ lines = [c \in Consoles |-> 0]
      /\ sleepers = {} /\ pending = {} /\ ppid = [t \in Threads |-> TIMER]
      /\ is_used = [t \in Threads |-> InRing(t)] /\ parent_wait = [t \in Threads |-> FALSE]
  BY DEF SInit
<1>4. None \notin Threads /\ TIMER \in Threads
  BY KernelAssumption, Kinds DEF None
<1>5. \A t \in Threads : ~Waited(t)
  BY <1>3 DEF Waited
<1>6. PTypeOK
  <2>1. todo \in [Threads -> Seq(Ops)]
    BY <1>3
  <2>2. JobType
    BY <1>3, <1>4 DEF JobType
  <2>3. DriverType
    <3>1. rstk \in [Consoles -> Seq(Consoles)] /\ lines \in [Consoles -> Nat]
      BY <1>3
    <3>2. \A c \in Consoles : rstk[c] = <<>> /\ Len(rstk[c]) = 0
      BY <1>3
    <3> QED
      BY <1>3, <3>1, <3>2 DEF DriverType
  <2>4. ProcType
    <3>1. is_used \in [Threads -> BOOLEAN] /\ parent_wait \in [Threads -> BOOLEAN]
      BY <1>3 DEF InRing, On
    <3> QED
      BY <1>3, <1>4, <1>5, <3>1 DEF ProcType
  <2> QED
    BY <2>1, <2>2, <2>3, <2>4 DEF PTypeOK
<1>7. ProgsOK
  <2>1. \A t \in Threads : Prog(t, todo[t])
    BY <1>3, ProgEmpty
  <2>2. ASSUME NEW s \in Servers PROVE JobKnown(s)
    <3>1. todo[s] = <<>>
      BY <1>3, Kinds
    <3>2. \A x : ~Uses(<<>>, x)
      BY DEF Uses
    <3> QED
      BY <3>1, <3>2 DEF JobKnown
  <2> QED
    BY <2>1, <2>2 DEF ProgsOK
<1>8. BoxesOK
  BY <1>2 DEF BoxesOK
<1>9. RunsAlone /\ ReceivesOK
  BY <1>2 DEF RunsAlone, ReceivesOK
<1>10. KernelThreads
  <2> SUFFICES ASSUME NEW t \in Servers \cup Gettys PROVE t \notin user /\ ~Gone(t)
    BY DEF KernelThreads
  <2>1. t \in Threads /\ On(Boot, t)
    BY Kinds, ServicesAssumption
  <2>2. ~On(Pool, t)
    BY <2>1, KernelAssumption
  <2> QED
    BY <1>2, <2>2 DEF Gone
<1>11. UsedOK
  <2> SUFFICES ASSUME NEW t \in Threads PROVE is_used[t] <=> ~Gone(t)
    BY DEF UsedOK
  <2>1. PcbInOneList
    BY <1>1, LInvIsInvariant DEF IInv
  <2>2. InRing(t) <=> ~InFree(t)
    BY <1>2, <2>1 DEF PcbInOneList
  <2> QED
    BY <1>2, <1>3, <2>2 DEF Gone, InFree
<1>12. ASSUME NEW t, NEW s, CanCall(t, s) PROVE Pair(t, s)
  <2>1. t \in Threads /\ s \in Threads /\ s \in Servers
    BY <1>12, CallTypes
  <2>2. ~Asked(t, s) /\ ~Replied(t, s) /\ Single(t, s)
    BY <1>2, <2>1 DEF Asked, Replied, Single, From, Once
  <2>3. ~Served(t, s)
    BY <1>3, <1>4, <2>1 DEF Served
  <2>4. ~Kept(t, s)
    <3>1. s = TTY => rstk[t] = <<>>
      BY <1>3, <1>12, Callers
    <3> QED
      BY <1>3, <1>5, <3>1 DEF Kept
  <2>5. ~Returned(t, s)
    <3>1. todo[s] # Notify(t)
      BY <1>3, <2>1 DEF Notify
    <3> QED
      BY <1>3, <3>1 DEF Returned
  <2> QED
    BY <2>2, <2>3, <2>4, <2>5 DEF Pair
<1> QED
  BY <1>1, <1>6, <1>7, <1>8, <1>9, <1>10, <1>11, <1>12 DEF ProtoInv, Pairs

(* ... at every interrupt ... *)
LEMMA IrqSteps ==
  ASSUME ProtoInv, UNCHANGED procs,
         IrqKey \/ \E due \in SUBSET sleepers : IrqTimer(due)
  PROVE  ProtoInv'
<1>1. CASE IrqKey
  <2> DEFINE due == {}
             upd == {"key"}
  <2>1. /\ IrqBegin /\ UNCHANGED <<todo, job, arg, rstk, lines, procs>>
        /\ due \in SUBSET sleepers /\ sleepers' = sleepers \ due
        /\ upd \in SUBSET {"key", "update"}
    BY <1>1 DEF IrqKey, IrqArrives, procs
  <2>2. pending' = {<<Intr, TTY, M(u, None)>> : u \in upd}
                     \cup {<<TIMER, t, M("reply", None)>> : t \in due}
    BY <1>1 DEF IrqKey
  <2> QED
    BY <2>1, <2>2, IrqBeginStep
<1>2. ASSUME NEW due \in SUBSET sleepers, IrqTimer(due) PROVE ProtoInv'
  <2>1. /\ IrqBegin /\ UNCHANGED <<todo, job, arg, rstk, lines, procs>>
        /\ sleepers' = sleepers \ due
    BY <1>2 DEF IrqTimer, IrqArrives, procs
  <2>2. PICK upd \in SUBSET (Irqs \cap {"update"}) :
          pending' = {<<Intr, TTY, M(u, None)>> : u \in upd}
                       \cup {<<TIMER, t, M("reply", None)>> : t \in due}
    BY <1>2 DEF IrqTimer
  <2>3. upd \in SUBSET {"key", "update"}
    OBVIOUS
  <2> QED
    BY <2>1, <2>2, <2>3, IrqBeginStep
<1> QED
  BY <1>1, <1>2

(* ... and at every other step. *)
LEMMA NextProto == ProtoInv /\ [SNext]_svars => ProtoInv'
<1> SUFFICES ASSUME ProtoInv, [SNext]_svars PROVE ProtoInv'
  OBVIOUS
<1>1. CASE ServiceStep
  <2>1. UNCHANGED procs
    BY <1>1 DEF ServiceStep
  <2>2. CASE Start \/ Fault
    BY <2>1, <2>2, StartSteps
  <2>3. CASE DoSend
    BY <2>1, <2>3, AskStep
  <2>4. CASE DoReceive \/ Loop
    BY <2>1, <2>4, ReceiveSteps
  <2>5. CASE DoReply \/ Ignore \/ Key
    BY <2>1, <2>5, ReplySteps
  <2>6. CASE GettyLoop
    BY <2>1, <2>6, GettyStep
  <2>7. CASE Return
    BY <2>1, <2>7, ReturnStep
  <2>8. CASE Claim
    BY <2>1, <2>8, ClaimStep
  <2>9. CASE Take
    BY <2>1, <2>9, AnswerTaken, RequestTaken
  <2>10. CASE ReadRequest
    BY <2>1, <2>10, ReadStep
  <2>11. CASE AddTimeEvent
    BY <2>1, <2>11, TimeEventStep
  <2>12. CASE \E c \in Consoles : KeyEnter(c)
    BY <2>1, <2>12, KeyEnterStep
  <2>13. CASE IrqKey \/ \E due \in SUBSET sleepers : IrqTimer(due)
    BY <2>1, <2>13, IrqSteps
  <2>14. CASE IrqSend
    BY <2>1, <2>14, IrqSendStep
  <2>15. CASE IrqReturn
    BY <2>1, <2>15, IrqReturnStep
  <2> QED
    BY <1>1, <2>2, <2>3, <2>4, <2>5, <2>6, <2>7, <2>8, <2>9, <2>10, <2>11, <2>12, <2>13,
       <2>14, <2>15 DEF ServiceStep
<1>2. CASE ManagerStep
  <2>1. CASE DoTake
    BY <2>1, TakePcbStep
  <2>2. CASE DoPlace
    BY <2>2, PlaceStep
  <2>3. CASE DoWakeupNew \/ DoWakeup
    BY <2>3, WakeupSteps
  <2>4. CASE DoReplyChild
    BY <2>4, ReplySteps DEF DoReplyChild
  <2>5. CASE DoRestart
    BY <2>5, RestartStep
  <2>6. CASE DoRelease
    BY <2>6, ReleaseStep
  <2>7. CASE DoNotify
    BY <2>7, NotifyStep
  <2>8. CASE DoWaitpid
    BY <2>8, WaitpidStep
  <2>9. CASE DoFinish
    BY <2>9, FinishStep
  <2> QED
    BY <1>2, <2>1, <2>2, <2>3, <2>4, <2>5, <2>6, <2>7, <2>8, <2>9 DEF ManagerStep
<1>3. CASE UNCHANGED svars
  <2>1. UNCHANGED vars /\ UNCHANGED <<todo, job, arg, rstk, lines, sleepers, pending>>
        /\ UNCHANGED <<new, ppid, is_used, parent_wait>>
    BY <1>3 DEF svars, progs, drivers, procs
  <2>2. IInv' /\ Steady /\ queue' = queue
    BY <2>1, CoreKeeps DEF ProtoInv, Steady, vars, lists, boxes
  <2>3. new' \in Threads \cup {None}
    BY <2>1 DEF ProtoInv, PTypeOK, ProcType
  <2> QED
    BY <2>1, <2>2, <2>3, NothingStep
<1> QED
  BY <1>1, <1>2, <1>3 DEF SNext

(* Every request of every thread is in exactly one place and the thread that
   made it waits for its answer: the discipline holds in all states of the
   whole kernel, for any number of PCBs, gettys and message nodes. *)
THEOREM RequestsFollowProtocol == SSpec => []ProtoInv
<1>1. SInit => ProtoInv
  BY InitProto
<1>2. ProtoInv /\ [SNext]_svars => ProtoInv'
  BY NextProto
<1> QED
  BY <1>1, <1>2, PTL DEF SSpec

(* A client whose request is on its way sleeps in receive(). *)
LEMMA ClientAsleep ==
  ASSUME ProtoInv, NEW t, NEW s, CanCall(t, s), InFirst(t, s), ~Replied(t, s)
  PROVE  Asleep(t, s)
<1>1. /\ t \in Threads /\ s \in Sems /\ s # ANY
  BY CallTypes DEF Sems, Sources
<1>2. /\ BoxType /\ BoxOK(t) /\ PcbInOneList
  BY <1>1, LInvIsInvariant DEF ProtoInv, IInv, LInv
<1>3. pc[t] = "second" /\ from[t] = s /\ ~Gone(t)
  BY DEF InFirst
<1>4. queue[t] \in Seq(Msgs)
  BY <1>1, <1>2 DEF BoxType
<1>5. Count(queue[t], s) \in Nat /\ ~(Count(queue[t], s) > 0)
  <2>1. ~\E i \in 1..Len(queue[t]) : queue[t][i].src = s
    BY DEF Replied, From
  <2> QED
    BY <1>4, <2>1, CountType
<1>6. Arrived(t, s) = 0
  BY <1>1, <1>5 DEF Arrived
<1>7. Owes(t, s)
  BY <1>3 DEF Owes
<1>8. token[t][s] = -1
  BY <1>1, <1>2, <1>6, <1>7, TokenBounds DEF BoxOK
<1>9. ~InRing(t)
  BY <1>1, <1>2, <1>8 DEF BoxOK, Rests
<1>10. t \in wait
  BY <1>1, <1>2, <1>3, <1>9 DEF PcbInOneList, Gone, InFree
<1> QED
  BY <1>3, <1>10 DEF Asleep

(* While a server works on a request, the thread that made it is asleep in
   receive() from that server: fork(), exec() and exit() copy, replace and free
   what nobody uses. *)
THEOREM RequestersSleep == SSpec => []RequesterAsleep
<1>1. ProtoInv => RequesterAsleep
  <2> SUFFICES ASSUME ProtoInv, NEW s \in Servers, job[s] \in Threads
               PROVE  Asleep(job[s], s)
    BY DEF RequesterAsleep
  <2>1. CanCall(job[s], s)
    BY DEF ProtoInv, PTypeOK, JobType
  <2>2. Pair(job[s], s) /\ Served(job[s], s)
    BY <2>1 DEF ProtoInv, Pairs, Served
  <2>3. InFirst(job[s], s) /\ ~Replied(job[s], s)
    BY <2>2 DEF Pair
  <2> QED
    BY <2>1, <2>3, ClientAsleep
<1> QED
  BY <1>1, RequestsFollowProtocol, PTL

(* A process whose child is marked parent_wait is still asleep in waitpid():
   no reuse of the PCBs of parent or child comes between. *)
THEOREM WaitingParentsSleep == SSpec => []WaitingParentAsleep
<1>1. ProtoInv => WaitingParentAsleep
  <2> SUFFICES ASSUME ProtoInv, NEW c \in Threads, is_used[c], parent_wait[c]
               PROVE  Asleep(ppid[c], PCB_MANAGER)
    BY DEF WaitingParentAsleep
  <2>1. ppid[c] \in Processes /\ Waited(c)
    BY DEF ProtoInv, PTypeOK, ProcType, Waited
  <2>2. CanCall(ppid[c], PCB_MANAGER) /\ Kept(ppid[c], PCB_MANAGER)
    BY <2>1, Callers DEF Kept
  <2>3. Pair(ppid[c], PCB_MANAGER)
    BY <2>1, <2>2, Kinds DEF ProtoInv, Pairs
  <2>4. InFirst(ppid[c], PCB_MANAGER) /\ ~Replied(ppid[c], PCB_MANAGER)
    BY <2>2, <2>3 DEF Pair
  <2> QED
    BY <2>2, <2>4, ClientAsleep
<1> QED
  BY <1>1, RequestsFollowProtocol, PTL

(* Nobody finds an answer it did not wait for: an answer is alone in the box of
   the thread that is in receive() from its sender. *)
THEOREM AnswersAreAwaited == SSpec => []NoStrayAnswer
<1>1. ProtoInv => NoStrayAnswer
  <2> SUFFICES ASSUME ProtoInv, NEW t \in Threads, NEW i \in 1..Len(queue[t]),
                      queue[t][i].body.type = "reply"
               PROVE  /\ pc[t] \in {"second", "take"} /\ from[t] = queue[t][i].src
                      /\ Count(queue[t], queue[t][i].src) = 1
    BY DEF NoStrayAnswer
  <2>1. PICK m : m = queue[t][i]
    OBVIOUS
  <2>2. MsgOK(t, m)
    BY <2>1 DEF ProtoInv, BoxesOK
  <2>3. CanCall(t, m.src)
    BY <2>1, <2>2, RequestTypes DEF MsgOK
  <2>4. Pair(t, m.src) /\ Replied(t, m.src)
    BY <2>1, <2>3, CallTypes DEF ProtoInv, Pairs, Replied, From
  <2>5. pc[t] \in {"second", "take"} /\ from[t] = m.src
    BY <2>4 DEF Pair, InFirst, Taking
  <2>6. Places(queue[t], m.src) = {i}
    BY <2>1, <2>4 DEF Pair, Single, Once, Places
  <2>7. queue[t] \in Seq(Msgs)
    BY DEF ProtoInv, IInv, LInv, BoxType
  <2>8. Count(queue[t], m.src) = Cardinality({i})
    BY <2>6, <2>7, CountType
  <2> QED
    BY <2>1, <2>5, <2>8, FS_Singleton
<1> QED
  BY <1>1, RequestsFollowProtocol, PTL
-----------------------------------------------------------------------------
(***************************************************************************)
(* No box overflows.  An answer or a request is in a box at most once, so  *)
(* threads fill at most one node each.  Interrupts do not wait for an      *)
(* answer, and ttyd may be ready for long before it runs; but every        *)
(* interrupt ends with schedule(), ttyd is put into the ring behind the    *)
(* running context, and once it runs it is not interrupted until its box   *)
(* is empty.  So the messages of interrupts in the box of ttyd and the     *)
(* turns until ttyd runs together never exceed the number of PCBs.         *)
(***************************************************************************)

\* How many times schedule() is called in ring r before y runs after x.
Turns(r, x, y) ==
  LET i == IndexOf(r, x)
      j == IndexOf(r, y)
  IN IF j > i THEN j - i ELSE Len(r) - i + j - 1

\* Interrupt messages in the box of ttyd, and still to be sent to it.
Ints == Count(queue[TTY], Intr)
Unsent == IF \E m \in pending : m[1] = Intr THEN 1 ELSE 0

(* k messages of the interrupt handler and u to come, in ring r with c running:
   no more than the turns that ttyd has missed, one per interrupt. *)
Load(r, c, i, k, u) ==
  On(r, TTY) =>
    IF c = TTY THEN k <= Cardinality(Threads)
    ELSE k + Turns(r, c, TTY) + u <= Cardinality(Threads) + (IF i THEN 1 ELSE 0)

TurnInv ==
  /\ pc[TTY] = "enabled" => InRing(TTY)
  /\ isr => current # TTY
  /\ ~isr => pending = {}
  /\ \A m, n \in pending : m[1] = Intr /\ n[1] = Intr => m = n
  /\ Load(ring, current, isr, Ints, Unsent)

(* An element of a list without repetition has one place in it. *)
LEMMA PlaceOf ==
  ASSUME NEW r \in Seq(Nodes), Distinct(r), NEW k \in 1..Len(r)
  PROVE  IndexOf(r, r[k]) = k
<1>1. On(r, r[k])
  BY DEF On
<1>2. IndexOf(r, r[k]) \in 1..Len(r) /\ r[IndexOf(r, r[k])] = r[k]
  BY <1>1, IndexOfProperties
<1> QED
  BY <1>2 DEF Distinct

\* A ready ring.
Ring(r) == r \in Seq(Nodes) /\ Len(r) > 0 /\ r[1] = Idle /\ Distinct(r)

(* schedule() takes the next place and passes over the head. *)
LEMMA ScheduleValue ==
  ASSUME NEW r, Ring(r), Len(r) >= 2, NEW i \in 1..Len(r)
  PROVE  Schedule(r, r[i]) = r[IF i = Len(r) THEN 2 ELSE i + 1]
<1>1. r \in Seq(Nodes) /\ r[1] = Idle /\ Distinct(r) /\ Len(r) \in Nat
  BY DEF Ring
<1>2. PICK n : n = Len(r)
  OBVIOUS
<1>3. i \in 1..n /\ n \in Nat /\ 1 \in 1..n /\ n >= 2
  BY <1>1, <1>2
<1>4. IndexOf(r, r[i]) = i /\ IndexOf(r, Idle) = 1
  <2>1. IndexOf(r, r[1]) = 1
    BY <1>1, <1>2, <1>3, PlaceOf
  <2> QED
    BY <1>1, <1>2, <1>3, <2>1, PlaceOf
<1>5. NextOf(r, Idle) = r[2]
  BY <1>2, <1>3, <1>4 DEF NextOf
<1>6. CASE i = n
  <2>1. NextOf(r, r[i]) = Idle
    BY <1>1, <1>2, <1>4, <1>6 DEF NextOf
  <2> QED
    BY <1>2, <1>5, <1>6, <2>1 DEF Schedule
<1>7. CASE i # n
  <2>1. NextOf(r, r[i]) = r[i + 1] /\ i + 1 \in 1..n
    BY <1>2, <1>3, <1>4, <1>7 DEF NextOf
  <2>2. r[i + 1] # Idle
    BY <1>1, <1>2, <1>3, <2>1 DEF Distinct
  <2> QED
    BY <1>2, <1>7, <2>1, <2>2 DEF Schedule
<1> QED
  BY <1>6, <1>7

(* The turns between two places. *)
LEMMA TurnsValue ==
  ASSUME NEW r, Ring(r), NEW i \in 1..Len(r), NEW j \in 1..Len(r), i # j, r[j] # Idle
  PROVE  /\ Turns(r, r[i], r[j]) = IF j > i THEN j - i ELSE Len(r) - i + j - 1
         /\ Turns(r, r[i], r[j]) >= 1 /\ Turns(r, r[i], r[j]) <= Len(r) - 1
         /\ Turns(r, r[i], r[j]) \in Nat
<1>1. r \in Seq(Nodes) /\ r[1] = Idle /\ Distinct(r) /\ Len(r) \in Nat
  BY DEF Ring
<1>2. PICK n : n = Len(r)
  OBVIOUS
<1>3. i \in 1..n /\ j \in 1..n /\ n \in Nat /\ j # 1
  BY <1>1, <1>2
<1>4. IndexOf(r, r[i]) = i /\ IndexOf(r, r[j]) = j
  BY <1>1, PlaceOf
<1>5. Turns(r, r[i], r[j]) = IF j > i THEN j - i ELSE n - i + j - 1
  BY <1>2, <1>4 DEF Turns
<1>6. /\ Turns(r, r[i], r[j]) >= 1 /\ Turns(r, r[i], r[j]) <= n - 1
      /\ Turns(r, r[i], r[j]) \in Nat
  BY <1>3, <1>5
<1> QED
  BY <1>2, <1>5, <1>6

(* schedule() brings y one turn nearer. *)
LEMMA TurnsSchedule ==
  ASSUME NEW r, Ring(r), NEW x, On(r, x), NEW y, On(r, y), x # y, y # Idle,
         Schedule(r, x) # y
  PROVE  Turns(r, Schedule(r, x), y) = Turns(r, x, y) - 1
<1>1. PICK n : n = Len(r)
  OBVIOUS
<1>2. n \in Nat /\ n > 0
  BY <1>1 DEF Ring
<1>3. PICK i \in 1..n : r[i] = x
  BY <1>1 DEF On
<1>4. PICK j \in 1..n : r[j] = y
  BY <1>1 DEF On
<1>5. i # j /\ n >= 2
  BY <1>2, <1>3, <1>4
<1>6. PICK k : k = IF i = n THEN 2 ELSE i + 1
  OBVIOUS
<1>7. k \in 1..n
  BY <1>2, <1>3, <1>5, <1>6
<1>8. /\ Turns(r, x, y) = IF j > i THEN j - i ELSE n - i + j - 1
      /\ Schedule(r, x) = r[k]
  BY <1>1, <1>3, <1>4, <1>5, <1>6, TurnsValue, ScheduleValue
<1>9. k # j
  BY <1>4, <1>8
<1>10. Turns(r, r[k], y) = IF j > k THEN j - k ELSE n - k + j - 1
  BY <1>1, <1>4, <1>7, <1>9, TurnsValue
<1>11. j # 1
  BY <1>4 DEF Ring
<1> QED
  BY <1>2, <1>3, <1>4, <1>5, <1>6, <1>8, <1>9, <1>10, <1>11

(* So does the running thread when it leaves the ring. *)
LEMMA TurnsLeave ==
  ASSUME NEW r, Ring(r), NEW x, On(r, x), NEW y, On(r, y), x # y, y # Idle, x # Idle,
         NEW w, w = Without(r, x), NEW c, c = Schedule(w, PrevOf(r, x)), c # y
  PROVE  Turns(w, c, y) = Turns(r, x, y) - 1
<1>1. PICK n : n = Len(r)
  OBVIOUS
<1>2. n \in Nat /\ n > 0 /\ r \in Seq(Nodes) /\ r[1] = Idle /\ Distinct(r)
  BY <1>1 DEF Ring
<1>3. PICK i \in 1..n : r[i] = x
  BY <1>1 DEF On
<1>4. PICK j \in 1..n : r[j] = y
  BY <1>1 DEF On
<1>5. i # j /\ i # 1 /\ j # 1 /\ n >= 3
  BY <1>2, <1>3, <1>4
<1>6. IndexOf(r, x) = i
  BY <1>1, <1>2, <1>3, PlaceOf
<1>7. /\ Len(w) = n - 1
      /\ \A k \in 1..(n - 1) : w[k] = IF k < i THEN r[k] ELSE r[k + 1]
  <2>1. w = RemoveAt(r, i) /\ i \in 1..Len(r)
    BY <1>1, <1>3, <1>6 DEF Without
  <2>2. /\ Len(w) = Len(r) - 1
        /\ \A k \in 1..(Len(r) - 1) : w[k] = IF k < i THEN r[k] ELSE r[k + 1]
    BY <1>2, <2>1, RemoveAtProperties, SMTT(60)
  <2> QED
    BY <1>1, <2>2
<1>8. Ring(w)
  BY <1>2, <1>3, <1>5, WithoutProperties DEF Ring, On
<1>9. PICK a : a = IF j < i THEN j ELSE j - 1
  OBVIOUS
<1>10. a \in 1..(n - 1) /\ w[a] = y /\ a # 1
  BY <1>2, <1>3, <1>4, <1>5, <1>7, <1>8, <1>9 DEF Ring
<1>11. PrevOf(r, x) = w[i - 1] /\ i - 1 \in 1..(n - 1)
  BY <1>2, <1>3, <1>5, <1>6, <1>7 DEF PrevOf
<1>12. PICK b : b = IF i = n THEN 2 ELSE i
  OBVIOUS
<1>13. b \in 1..(n - 1)
  BY <1>2, <1>3, <1>5, <1>12
<1>14. c = w[b]
  <2>1. Schedule(w, w[i - 1]) = w[IF i - 1 = Len(w) THEN 2 ELSE (i - 1) + 1]
    BY <1>2, <1>5, <1>7, <1>8, <1>11, ScheduleValue
  <2>2. (IF i - 1 = Len(w) THEN 2 ELSE (i - 1) + 1) = b
    BY <1>2, <1>3, <1>7, <1>12
  <2> QED
    BY <1>11, <2>1, <2>2
<1>15. b # a
  BY <1>10, <1>14
<1>16. Turns(w, c, y) = IF a > b THEN a - b ELSE (n - 1) - b + a - 1
  <2>1. w[a] # Idle /\ a \in 1..Len(w) /\ b \in 1..Len(w)
    BY <1>7, <1>10, <1>13
  <2>2. Turns(w, w[b], w[a]) = IF a > b THEN a - b ELSE Len(w) - b + a - 1
    BY <1>8, <1>15, <2>1, TurnsValue
  <2> QED
    BY <1>7, <1>10, <1>14, <2>2
<1>17. Turns(r, x, y) = IF j > i THEN j - i ELSE n - i + j - 1
  BY <1>1, <1>3, <1>4, <1>5, TurnsValue
<1> QED
  BY <1>2, <1>3, <1>4, <1>5, <1>9, <1>12, <1>15, <1>16, <1>17

(* wakeup(p) puts p behind everybody, and delays nobody. *)
LEMMA TurnsWakeup ==
  ASSUME NEW r, Ring(r), NEW x, On(r, x), NEW p \in Nodes, ~On(r, p),
         NEW a, a = AddBefore(r, x, p)
  PROVE  /\ Ring(a) /\ Len(a) = Len(r) + 1
         /\ \A y : On(r, y) /\ y # x /\ y # Idle => Turns(a, x, y) = Turns(r, x, y)
<1>1. PICK n : n = Len(r)
  OBVIOUS
<1>2. n \in Nat /\ n > 0 /\ r \in Seq(Nodes) /\ r[1] = Idle /\ Distinct(r)
  BY <1>1 DEF Ring
<1>3. PICK i \in 1..n : r[i] = x
  BY <1>1 DEF On
<1>4. IndexOf(r, x) = i
  BY <1>1, <1>2, <1>3, PlaceOf
<1>5. PICK k : k = IF i = 1 THEN n + 1 ELSE i
  OBVIOUS
<1>6. k \in 1..(n + 1)
  BY <1>2, <1>3, <1>5
<1>7. /\ Len(a) = n + 1
      /\ \A j \in 1..(n + 1) : a[j] = IF j < k THEN r[j] ELSE IF j = k THEN p ELSE r[j - 1]
  <2>1. CASE i = 1
    <3>1. a = Append(r, p)
      BY <1>4, <2>1 DEF AddBefore
    <3>2. Len(a) = n + 1 /\ a[n + 1] = p /\ \A j \in 1..n : a[j] = r[j]
      BY <1>1, <1>2, <3>1, AppendProperties
    <3> QED
      BY <1>2, <1>5, <2>1, <3>2
  <2>2. CASE i # 1
    <3>1. a = InsertAt(r, i, p) /\ i \in 1..Len(r)
      BY <1>1, <1>3, <1>4, <2>2 DEF AddBefore
    <3>2. /\ Len(a) = Len(r) + 1
          /\ \A j \in 1..(Len(r) + 1) :
               a[j] = IF j < i THEN r[j] ELSE IF j = i THEN p ELSE r[j - 1]
      <4>1. /\ Len(InsertAt(r, i, p)) = Len(r) + 1
            /\ \A j \in 1..(Len(r) + 1) :
                 InsertAt(r, i, p)[j] = IF j < i THEN r[j] ELSE IF j = i THEN p ELSE r[j - 1]
        BY <1>2, <3>1, InsertAtProperties
      <4> QED
        BY <3>1, <4>1
    <3> QED
      BY <1>1, <1>5, <2>2, <3>2
  <2> QED
    BY <2>1, <2>2
<1>8. Ring(a)
  BY <1>2, AddBeforeProperties DEF Ring
<1>9. ASSUME NEW y, On(r, y), y # x, y # Idle PROVE Turns(a, x, y) = Turns(r, x, y)
  <2>1. PICK j \in 1..n : r[j] = y
    BY <1>1, <1>9 DEF On
  <2>2. j # 1 /\ j # i
    BY <1>2, <1>3, <1>9, <2>1
  <2>3. Turns(r, x, y) = IF j > i THEN j - i ELSE n - i + j - 1
    BY <1>1, <1>3, <1>9, <2>1, <2>2, TurnsValue
  <2>4. PICK b : b = IF i < k THEN i ELSE i + 1
    OBVIOUS
  <2>5. PICK c : c = IF j < k THEN j ELSE j + 1
    OBVIOUS
  <2>6. b \in 1..(n + 1) /\ c \in 1..(n + 1) /\ a[b] = x /\ a[c] = y /\ b # c
    <3>1. b \in 1..(n + 1) /\ c \in 1..(n + 1) /\ b # c /\ b # k /\ c # k
      BY <1>2, <1>3, <1>5, <2>1, <2>2, <2>4, <2>5
    <3>2. ASSUME NEW h \in 1..n, NEW d \in 1..(n + 1), d = IF h < k THEN h ELSE h + 1
          PROVE  a[d] = r[h]
      <4>1. CASE h < k
        BY <1>7, <3>2, <4>1
      <4>2. CASE ~(h < k)
        <5>1. d = h + 1 /\ ~(d < k) /\ d # k /\ d - 1 = h
          BY <1>2, <1>6, <3>2, <4>2
        <5> QED
          BY <1>7, <5>1
      <4> QED
        BY <4>1, <4>2
    <3> QED
      BY <1>3, <2>1, <2>4, <2>5, <3>1, <3>2
  <2>7. Turns(a, x, y) = IF c > b THEN c - b ELSE (n + 1) - b + c - 1
    <3>1. b \in 1..Len(a) /\ c \in 1..Len(a) /\ a[c] # Idle
      BY <1>7, <1>9, <2>6
    <3>2. Turns(a, a[b], a[c]) = IF c > b THEN c - b ELSE Len(a) - b + c - 1
      BY <1>8, <2>6, <3>1, TurnsValue
    <3> QED
      BY <1>7, <2>6, <3>2
  <2> QED
    BY <1>2, <1>3, <1>5, <2>1, <2>2, <2>3, <2>4, <2>5, <2>7
<1> QED
  BY <1>1, <1>7, <1>8, <1>9

(* The ring holds the idle context and threads, each once. *)
LEMMA RingLength ==
  ASSUME IsFiniteSet(Threads), NEW r, Ring(r)
  PROVE  Len(r) \in Nat /\ Cardinality(Threads) \in Nat /\ Len(r) <= Cardinality(Threads) + 1
<1>1. r \in Seq(Nodes) /\ Distinct(r) /\ Len(r) \in Nat /\ Len(r) > 0
  BY DEF Ring
<1>2. r \in Injection(1..Len(r), Nodes)
  BY <1>1 DEF Injection, Distinct, IsInjective
<1>3. /\ IsFiniteSet(Nodes) /\ Cardinality(Nodes) = Cardinality(Threads) + 1
      /\ Cardinality(Threads) \in Nat
  BY KernelAssumption, FS_AddElement, FS_CardinalityType DEF Nodes
<1>4. Cardinality(1..Len(r)) <= Cardinality(Nodes)
  BY <1>2, <1>3, FS_Injection
<1>5. Cardinality(1..Len(r)) = Len(r)
  <2>1. Cardinality(1..Len(r)) = IF 1 > Len(r) THEN 0 ELSE Len(r) - 1 + 1
    BY <1>1, FS_Interval
  <2> QED
    BY <1>1, <2>1
<1> QED
  BY <1>1, <1>3, <1>4, <1>5

(* The messages of threads in a box have different sources. *)
LEMMA BoxLength ==
  ASSUME ProtoInv, IsFiniteSet(Threads), NEW t \in Threads
  PROVE  /\ Len(queue[t]) \in Nat /\ Cardinality(Threads) \in Nat
         /\ Count(queue[t], Intr) \in Nat
         /\ Len(queue[t]) <= Cardinality(Threads) - 1 + Count(queue[t], Intr)
<1>1. PICK q : q = queue[t]
  OBVIOUS
<1>2. q \in Seq(Msgs) /\ Len(q) \in Nat
  BY <1>1 DEF ProtoInv, IInv, LInv, BoxType
<1> DEFINE A == Places(q, Intr)
           B == {i \in 1..Len(q) : q[i].src # Intr}
           f == [i \in B |-> q[i].src]
<1>3. IsFiniteSet(A) /\ Count(q, Intr) = Cardinality(A) /\ Count(q, Intr) \in Nat
  BY <1>2, CountType
<1>4. ASSUME NEW i \in B
      PROVE  q[i].src \in Threads \ {t} /\ Once(q, q[i].src)
  <2>1. i \in 1..Len(q) /\ q[i].src # Intr
    OBVIOUS
  <2>2. MsgOK(t, q[i])
    BY <1>1, <2>1 DEF ProtoInv, BoxesOK
  <2>3. CanCall(q[i].src, t) \/ CanCall(t, q[i].src)
    BY <2>1, <2>2 DEF MsgOK
  <2>4. ASSUME NEW x, CanCall(x, t) \/ CanCall(t, x)
        PROVE  x \in Threads \ {t} /\ Once(queue[t], x)
    <3>1. CASE CanCall(x, t)
      BY <3>1, CallTypes DEF ProtoInv, Pairs, Pair, Single
    <3>2. CASE CanCall(t, x)
      BY <3>2, CallTypes DEF ProtoInv, Pairs, Pair, Single
    <3> QED
      BY <2>4, <3>1, <3>2
  <2> QED
    BY <1>1, <2>3, <2>4
<1>5. f \in [B -> Threads \ {t}]
  BY <1>4
<1>6. \A i, j \in B : f[i] = f[j] => i = j
  <2> SUFFICES ASSUME NEW i \in B, NEW j \in B, q[i].src = q[j].src PROVE i = j
    OBVIOUS
  <2>1. Once(q, q[i].src)
    BY <1>4
  <2> QED
    BY <2>1 DEF Once
<1>7. f \in Injection(B, Threads \ {t})
  BY <1>5, <1>6 DEF Injection, IsInjective
<1>8. /\ IsFiniteSet(Threads \ {t}) /\ Cardinality(Threads \ {t}) = Cardinality(Threads) - 1
      /\ Cardinality(Threads) \in Nat
  BY FS_RemoveElement, FS_CardinalityType
<1> HIDE DEF f
<1>9. IsFiniteSet(B) /\ Cardinality(B) <= Cardinality(Threads) - 1
  BY <1>7, <1>8, FS_Injection
<1>10. A \cup B = 1..Len(q) /\ A \cap B = {}
  BY DEF Places
<1> HIDE DEF A, B
<1>11. Cardinality(B) \in Nat
  BY <1>9, FS_CardinalityType
<1>12. Cardinality(A \cup B) = Cardinality(A) + Cardinality(B)
  <2>1. Cardinality(A \cup B) = Cardinality(A) + Cardinality(B) - Cardinality(A \cap B)
    BY <1>3, <1>9, FS_Union
  <2> QED
    <3>1. Cardinality(A \cap B) = 0 /\ Cardinality(A) \in Nat
      BY <1>3, <1>10, FS_EmptySet
    <3>2. PICK u : u = Cardinality(A \cup B)
      OBVIOUS
    <3>3. u = Cardinality(A) + Cardinality(B) - 0
      BY <2>1, <3>1, <3>2
    <3> QED
      BY <1>11, <3>1, <3>2, <3>3
<1>13. Cardinality(1..Len(q)) = Len(q)
  <2>1. Cardinality(1..Len(q)) = IF 1 > Len(q) THEN 0 ELSE Len(q) - 1 + 1
    BY <1>2, FS_Interval, SMTT(60)
  <2> QED
    BY <1>2, <2>1
<1>14. Len(q) = Count(q, Intr) + Cardinality(B)
  BY <1>3, <1>10, <1>12, <1>13
<1> QED
  BY <1>1, <1>2, <1>3, <1>8, <1>9, <1>11, <1>14

(* ttyd calls nobody: it sleeps only in receive(ANY), with an empty box. *)
LEMMA TtyAsleep ==
  ASSUME ProtoInv, TurnInv, TTY \in wait
  PROVE  Ints = 0
<1>1. /\ BoxType /\ TTY \in Threads /\ BoxOK(TTY) /\ ReceivesOK /\ ~InRing(TTY)
  BY Kinds DEF ProtoInv, IInv, LInv, ListsOK, RingOK, InRing
<1>2. pc[TTY] = "second" /\ token[TTY][from[TTY]] < 0
  BY <1>1 DEF TurnInv, BoxOK, Rests
<1>3. \A s : ~CanCall(TTY, s)
  BY ServersApart, Kinds DEF CanCall
<1>4. from[TTY] = ANY
  BY <1>1, <1>2, <1>3 DEF ReceivesOK
<1>5. ANY \in Sems /\ queue[TTY] \in Seq(Msgs)
  BY <1>1 DEF Sems, BoxType
<1>6. token[TTY][ANY] = Arrived(TTY, ANY) - 1
  <2>1. Owes(TTY, ANY)
    BY <1>2, <1>4 DEF Owes
  <2> QED
    BY <1>1, <1>5, <2>1, TokenBounds DEF BoxOK
<1>7. Arrived(TTY, ANY) = Len(queue[TTY]) /\ Len(queue[TTY]) \in Nat
  BY <1>5 DEF Arrived
<1>8. Len(queue[TTY]) = 0
  BY <1>2, <1>4, <1>6, <1>7
<1>9. queue[TTY] = <<>>
  BY <1>5, <1>8
<1> QED
  BY <1>9, CountEmpty DEF Ints

(* The turns to ttyd in a ready ring. *)
LEMMA RingTurns ==
  ASSUME IsFiniteSet(Threads), NEW r, Ring(r), NEW c, On(r, c)
  PROVE  /\ Cardinality(Threads) \in Nat /\ Len(r) \in Nat /\ TTY # Idle
         /\ Len(r) <= Cardinality(Threads) + 1
         /\ On(r, TTY) /\ c # TTY =>
              /\ Turns(r, c, TTY) \in Nat /\ Turns(r, c, TTY) >= 1
              /\ Turns(r, c, TTY) <= Cardinality(Threads)
<1>1. /\ Cardinality(Threads) \in Nat /\ Len(r) \in Nat /\ TTY # Idle
      /\ Len(r) <= Cardinality(Threads) + 1
  BY RingLength, Kinds, KernelAssumption
<1>2. ASSUME On(r, TTY), c # TTY
      PROVE  /\ Turns(r, c, TTY) \in Nat /\ Turns(r, c, TTY) >= 1
             /\ Turns(r, c, TTY) <= Len(r) - 1
  <2>1. PICK i \in 1..Len(r) : r[i] = c
    BY DEF On
  <2>2. PICK j \in 1..Len(r) : r[j] = TTY
    BY <1>2 DEF On
  <2>3. i # j /\ r[j] # Idle
    BY <1>1, <1>2, <2>1, <2>2
  <2>4. /\ Turns(r, r[i], r[j]) \in Nat /\ Turns(r, r[i], r[j]) >= 1
        /\ Turns(r, r[i], r[j]) <= Len(r) - 1
    BY <2>3, TurnsValue
  <2> QED
    BY <2>1, <2>2, <2>4
<1>3. PICK n : n = Len(r)
  OBVIOUS
<1> QED
  BY <1>1, <1>2, <1>3

(* The running context wakes up nobody, or one thread. *)
LEMMA LoadWake ==
  ASSUME IsFiniteSet(Threads), NEW r, Ring(r), NEW c, On(r, c), NEW i \in BOOLEAN,
         NEW k \in Nat, NEW u \in {0, 1}, Load(r, c, i, k, u), u = 1 => i /\ c # TTY,
         NEW a, a = r \/ (\E p \in Nodes : ~On(r, p) /\ a = AddBefore(r, c, p)
                                           /\ (p = TTY => k = 0)),
         NEW h \in Nat, NEW v \in {0, 1}, h + v <= k + u
  PROVE  Load(a, c, i, h, v)
<1>1. Cardinality(Threads) \in Nat /\ TTY # Idle
  BY RingTurns
<1>2. CASE On(r, TTY)
  <2>1. On(r, TTY) /\ c # TTY => Turns(a, c, TTY) = Turns(r, c, TTY)
    BY <1>1, TurnsWakeup
  <2>2. c # TTY => Turns(r, c, TTY) \in Nat
    BY <1>2, RingTurns
  <2>3. CASE c = TTY
    <3>1. k <= Cardinality(Threads) /\ u = 0
      BY <1>2, <2>3 DEF Load
    <3> QED
      BY <1>1, <2>3, <3>1 DEF Load
  <2>4. CASE c # TTY
    <3>1. k + Turns(r, c, TTY) + u <= Cardinality(Threads) + (IF i THEN 1 ELSE 0)
      BY <1>2, <2>4 DEF Load
    <3>2. h + Turns(a, c, TTY) + v <= Cardinality(Threads) + (IF i THEN 1 ELSE 0)
      <4>1. PICK n : n = Cardinality(Threads) + (IF i THEN 1 ELSE 0)
        OBVIOUS
      <4>2. n \in Nat
        BY <1>1, <4>1
      <4>3. PICK m : m = Turns(r, c, TTY)
        OBVIOUS
      <4>4. m \in Nat /\ k + m + u <= n
        BY <2>2, <2>4, <3>1, <4>1, <4>3
      <4>5. h + m + v <= n
        BY <4>2, <4>4
      <4> QED
        BY <1>2, <2>1, <2>4, <4>1, <4>3, <4>5
    <3> QED
      BY <2>4, <3>2 DEF Load
  <2> QED
    BY <2>3, <2>4
<1>3. CASE ~On(r, TTY)
  <2>1. SUFFICES ASSUME On(a, TTY) PROVE Load(a, c, i, h, v)
    BY DEF Load
  <2>2. a # r
    BY <1>3, <2>1
  <2>3. PICK p \in Nodes : ~On(r, p) /\ a = AddBefore(r, c, p) /\ (p = TTY => k = 0)
    BY <2>2
  <2>4. Ring(a) /\ On(a, c) /\ (\A y : On(a, y) <=> y = p \/ On(r, y))
    <3>1. Ring(a)
      BY <2>3, TurnsWakeup
    <3>2. \A y : On(a, y) <=> y = p \/ On(r, y)
      BY <2>3, AddBeforeProperties DEF Ring
    <3> QED
      BY <3>1, <3>2
  <2>5. k = 0 /\ c # TTY
    BY <1>3, <2>1, <2>3, <2>4
  <2>6. Turns(a, c, TTY) \in Nat /\ Turns(a, c, TTY) <= Cardinality(Threads)
    BY <2>1, <2>4, <2>5, RingTurns
  <2>7. h + v <= (IF i THEN 1 ELSE 0)
    BY <2>5
  <2>8. h + Turns(a, c, TTY) + v <= Cardinality(Threads) + (IF i THEN 1 ELSE 0)
    <3>1. PICK m : m = Turns(a, c, TTY)
      OBVIOUS
    <3> QED
      BY <1>1, <2>6, <2>7, <3>1
  <2> QED
    BY <2>5, <2>8 DEF Load
<1> QED
  BY <1>2, <1>3

(* schedule() at the end of an interrupt or a system call. *)
LEMMA LoadRotate ==
  ASSUME IsFiniteSet(Threads), NEW r, Ring(r), NEW c, On(r, c), c # TTY, NEW i \in BOOLEAN,
         NEW k \in Nat, Load(r, c, i, k, 0), NEW d, d = Schedule(r, c)
  PROVE  Load(r, d, FALSE, k, 0)
<1>1. SUFFICES ASSUME On(r, TTY) PROVE Load(r, d, FALSE, k, 0)
  BY DEF Load
<1>2. PICK n : n = Cardinality(Threads)
  OBVIOUS
<1>3. PICK m : m = Turns(r, c, TTY)
  OBVIOUS
<1>4. m \in Nat /\ m >= 1 /\ n \in Nat /\ TTY # Idle
  BY <1>1, <1>2, <1>3, RingTurns
<1>5. k + m + 0 <= n + (IF i THEN 1 ELSE 0)
  BY <1>1, <1>2, <1>3 DEF Load
<1>6. CASE d = TTY
  <2>1. k <= n
    BY <1>4, <1>5
  <2> QED
    BY <1>2, <1>6, <2>1 DEF Load
<1>7. CASE d # TTY
  <2>1. Turns(r, d, TTY) = m - 1
    BY <1>1, <1>3, <1>4, <1>7, TurnsSchedule
  <2>2. k + Turns(r, d, TTY) + 0 <= n + 0
    BY <1>4, <1>5, <2>1
  <2> QED
    BY <1>2, <1>7, <2>2 DEF Load
<1> QED
  BY <1>6, <1>7

(* The running thread goes to sleep or ends. *)
LEMMA LoadLeave ==
  ASSUME IsFiniteSet(Threads), NEW r, Ring(r), NEW c, On(r, c), c # Idle,
         NEW k \in Nat, Load(r, c, FALSE, k, 0),
         NEW w, w = Without(r, c), NEW d, d = Schedule(w, PrevOf(r, c))
  PROVE  Load(w, d, FALSE, k, 0)
<1>1. SUFFICES ASSUME On(w, TTY) PROVE Load(w, d, FALSE, k, 0)
  BY DEF Load
<1>2. On(r, TTY) /\ c # TTY
  BY <1>1, WithoutProperties DEF Ring
<1>3. PICK n : n = Cardinality(Threads)
  OBVIOUS
<1>4. PICK m : m = Turns(r, c, TTY)
  OBVIOUS
<1>5. m \in Nat /\ m >= 1 /\ n \in Nat /\ TTY # Idle
  BY <1>2, <1>3, <1>4, RingTurns
<1>6. k + m + 0 <= n + 0
  BY <1>2, <1>3, <1>4 DEF Load
<1>7. CASE d = TTY
  <2>1. k <= n
    BY <1>5, <1>6
  <2> QED
    BY <1>3, <1>7, <2>1 DEF Load
<1>8. CASE d # TTY
  <2>1. Turns(w, d, TTY) = m - 1
    BY <1>2, <1>4, <1>5, <1>8, TurnsLeave
  <2>2. k + Turns(w, d, TTY) + 0 <= n + 0
    BY <1>5, <1>6, <2>1
  <2> QED
    BY <1>3, <1>8, <2>2 DEF Load
<1> QED
  BY <1>7, <1>8

(* An interrupt arrives. *)
LEMMA LoadBegin ==
  ASSUME IsFiniteSet(Threads), NEW r, Ring(r), NEW c, On(r, c), c # TTY,
         NEW k \in Nat, Load(r, c, FALSE, k, 0), NEW u \in {0, 1}
  PROVE  Load(r, c, TRUE, k, u)
<1>1. SUFFICES ASSUME On(r, TTY) PROVE Load(r, c, TRUE, k, u)
  BY DEF Load
<1>2. PICK n : n = Cardinality(Threads)
  OBVIOUS
<1>3. PICK m : m = Turns(r, c, TTY)
  OBVIOUS
<1>4. m \in Nat /\ n \in Nat
  BY <1>1, <1>2, <1>3, RingTurns
<1>5. k + m + 0 <= n + 0
  BY <1>1, <1>2, <1>3 DEF Load
<1>6. k + m + u <= n + 1
  BY <1>4, <1>5
<1> QED
  BY <1>2, <1>3, <1>6 DEF Load

(* What the step lemmas below read off the invariants. *)
LEMMA TurnSetup ==
  ASSUME ProtoInv, TurnInv
  PROVE  /\ Ring(ring) /\ On(ring, current) /\ isr \in BOOLEAN
         /\ Ints \in Nat /\ Unsent \in {0, 1}
         /\ Unsent = 1 => isr /\ current # TTY
         /\ ~isr => Unsent = 0
         /\ TTY \in wait => Ints = 0 /\ ~On(ring, TTY)
         /\ \A p \in wait : p \in Nodes /\ ~On(ring, p)
         /\ TTY \in Threads /\ queue[TTY] \in Seq(Msgs)
<1>1. Ring(ring) /\ On(ring, current) /\ BoxType /\ isr \in BOOLEAN
  BY DEF ProtoInv, IInv, LInv, ListsOK, RingOK, Ring, BoxType
<1>2. TTY \in Threads
  BY Kinds
<1>3. queue[TTY] \in Seq(Msgs)
  BY <1>1, <1>2 DEF BoxType
<1>4. Ints \in Nat
  BY <1>3, CountType DEF Ints
<1>5. \A p \in wait : p \in Nodes /\ ~On(ring, p)
  BY DEF ProtoInv, IInv, LInv, ListsOK, RingOK, Nodes
<1>6. Unsent \in {0, 1} /\ (Unsent = 1 => isr /\ current # TTY) /\ (~isr => Unsent = 0)
  BY DEF Unsent, TurnInv
<1> QED
  BY <1>1, <1>2, <1>3, <1>4, <1>5, <1>6, TtyAsleep

(* A step of the running context in which it wakes up at most one thread. *)
LEMMA WakeTurn ==
  ASSUME ProtoInv, TurnInv, ProtoInv', IsFiniteSet(Threads),
         current' = current, isr' = isr, pending' \in SUBSET pending,
         pc'[TTY] = "enabled" => pc[TTY] = "enabled",
         Ints' \in Nat, Ints' + Unsent' <= Ints + Unsent,
         ring' = ring \/ \E p \in wait : ring' = AddBefore(ring, current, p)
  PROVE  TurnInv'
<1>1. PICK r, c, i, k, u : r = ring /\ c = current /\ i = isr /\ k = Ints /\ u = Unsent
  OBVIOUS
<1>2. PICK a, h, v : a = ring' /\ h = Ints' /\ v = Unsent'
  OBVIOUS
<1>3. /\ Ring(r) /\ On(r, c) /\ i \in BOOLEAN /\ k \in Nat /\ u \in {0, 1}
      /\ u = 1 => i /\ c # TTY
  BY <1>1, TurnSetup
<1>4. Load(r, c, i, k, u)
  BY <1>1 DEF TurnInv
<1>5. v \in {0, 1} /\ h \in Nat /\ h + v <= k + u
  BY <1>1, <1>2 DEF Unsent
<1>6. a = r \/ (\E p \in Nodes : ~On(r, p) /\ a = AddBefore(r, c, p) /\ (p = TTY => k = 0))
  <2>1. CASE a = r
    BY <2>1
  <2>2. CASE a # r
    <3>1. PICK p \in wait : a = AddBefore(r, c, p)
      BY <1>1, <1>2, <2>2
    <3>2. p \in Nodes /\ ~On(r, p) /\ (p = TTY => k = 0)
      BY <1>1, <3>1, TurnSetup
    <3> QED
      BY <3>1, <3>2
  <2> QED
    BY <2>1, <2>2
<1>7. Load(a, c, i, h, v)
  BY <1>3, <1>4, <1>5, <1>6, LoadWake
<1>8. Load(ring, current, isr, Ints, Unsent)'
  BY <1>1, <1>2, <1>7
<1>9. On(r, TTY) => On(a, TTY)
  <2>1. \A p \in Nodes : ~On(r, p) /\ a = AddBefore(r, c, p) => (On(r, TTY) => On(a, TTY))
    BY <1>3, AddBeforeProperties DEF Ring
  <2> QED
    BY <1>6, <2>1
<1>10. (pc[TTY] = "enabled" => InRing(TTY))'
  BY <1>1, <1>2, <1>9 DEF InRing, TurnInv
<1>11. (isr => current # TTY)' /\ (~isr => pending = {})'
  BY DEF TurnInv
<1>12. (\A m, n \in pending : m[1] = Intr /\ n[1] = Intr => m = n)'
  BY DEF TurnInv
<1> QED
  BY <1>8, <1>10, <1>11, <1>12 DEF TurnInv

(* The running thread leaves the ring: sleep() in P(), or wrap(). *)
LEMMA LeaveTurn ==
  ASSUME ProtoInv, TurnInv, IsFiniteSet(Threads),
         ~isr, isr' = isr, pending' = pending, current # Idle,
         pc'[TTY] = "enabled" => pc[TTY] = "enabled" /\ current # TTY,
         Ints' = Ints, ring' = Without(ring, current),
         current' = Schedule(ring', PrevOf(ring, current))
  PROVE  TurnInv'
<1>1. PICK r, c, k : r = ring /\ c = current /\ k = Ints
  OBVIOUS
<1>2. PICK w, d : w = ring' /\ d = current'
  OBVIOUS
<1>3. Ring(r) /\ On(r, c) /\ k \in Nat /\ Unsent = 0 /\ isr = FALSE
  BY <1>1, TurnSetup
<1>4. Load(r, c, FALSE, k, 0)
  BY <1>1, <1>3 DEF TurnInv
<1>5. w = Without(r, c) /\ d = Schedule(w, PrevOf(r, c))
  BY <1>1, <1>2
<1>6. Load(w, d, FALSE, k, 0)
  BY <1>1, <1>3, <1>4, <1>5, LoadLeave
<1>7. Unsent' = 0 /\ isr' = FALSE /\ Ints' = k
  BY <1>1, <1>3 DEF Unsent
<1>8. Load(ring, current, isr, Ints, Unsent)'
  BY <1>2, <1>6, <1>7
<1>9. On(r, TTY) /\ c # TTY => On(w, TTY)
  BY <1>1, <1>3, <1>5, WithoutProperties DEF Ring
<1>10. (pc[TTY] = "enabled" => InRing(TTY))'
  BY <1>1, <1>2, <1>9 DEF InRing, TurnInv
<1> QED
  BY <1>8, <1>10 DEF TurnInv

(* The tail of irq_handle(). *)
LEMMA RotateTurn ==
  ASSUME ProtoInv, TurnInv, IsFiniteSet(Threads), isr' = FALSE, pending = {}, pending' = {},
         current # TTY, pc'[TTY] = "enabled" => pc[TTY] = "enabled",
         Ints' = Ints, ring' = ring, current' = Schedule(ring, current)
  PROVE  TurnInv'
<1>1. PICK r, c, i, k : r = ring /\ c = current /\ i = isr /\ k = Ints
  OBVIOUS
<1>2. PICK d : d = current'
  OBVIOUS
<1>3. Ring(r) /\ On(r, c) /\ k \in Nat /\ i \in BOOLEAN
  BY <1>1, TurnSetup
<1>4. Unsent = 0 /\ Unsent' = 0
  BY DEF Unsent
<1>5. Load(r, c, i, k, 0)
  BY <1>1, <1>4 DEF TurnInv
<1>6. Load(r, d, FALSE, k, 0)
  BY <1>1, <1>2, <1>3, <1>5, LoadRotate
<1>7. Load(ring, current, isr, Ints, Unsent)'
  BY <1>1, <1>2, <1>4, <1>6
<1>8. (pc[TTY] = "enabled" => InRing(TTY))'
  BY DEF InRing, TurnInv
<1> QED
  BY <1>7, <1>8 DEF TurnInv

(* An interrupt, which does not arrive in ttyd. *)
LEMMA BeginTurn ==
  ASSUME ProtoInv, TurnInv, IsFiniteSet(Threads), ~isr, isr' = TRUE, current # TTY,
         \A m, n \in pending' : m[1] = Intr /\ n[1] = Intr => m = n,
         pc' = pc, Ints' = Ints, ring' = ring, current' = current
  PROVE  TurnInv'
<1>1. PICK r, c, k : r = ring /\ c = current /\ k = Ints
  OBVIOUS
<1>2. PICK v : v = Unsent'
  OBVIOUS
<1>3. Ring(r) /\ On(r, c) /\ k \in Nat /\ Unsent = 0 /\ isr = FALSE /\ v \in {0, 1}
  BY <1>1, <1>2, TurnSetup DEF Unsent
<1>4. Load(r, c, FALSE, k, 0)
  BY <1>1, <1>3 DEF TurnInv
<1>5. Load(r, c, TRUE, k, v)
  BY <1>1, <1>3, <1>4, LoadBegin
<1>6. Load(ring, current, isr, Ints, Unsent)'
  BY <1>1, <1>2, <1>5
<1>7. (pc[TTY] = "enabled" => InRing(TTY))'
  BY DEF InRing, TurnInv
<1> QED
  BY <1>6, <1>7 DEF TurnInv
-----------------------------------------------------------------------------
(* The steps of System as steps of the core. *)

\* A thread sends.
ThreadSend == \E src \in Threads, dest \in Threads, body \in Body : Send(src, dest, body)

\* The running thread is in the kernel, or enters it or leaves it.
KernelStep ==
  \/ UNCHANGED vars \/ Enter \/ SyscallReturn \/ ThreadSend
  \/ (\E src \in Sems : ReceiveFirst(src)) \/ ReceiveSecond \/ ReceiveTake
  \/ TakePcb \/ (Finish /\ current \in Processes)
  \/ \E t : WakeupNew(t) \/ ReleasePcb(t)
  \/ \E t \in Processes : PlacePcb(t) \/ ExecReset(t)

\* fork() finds no PCB.
OutOfPcbs ==
  /\ Doing("take") /\ current = PCB_MANAGER /\ free = <<>>
  /\ Halt /\ UNCHANGED <<todo, pending>>

(* What a server sends as an answer. *)
LEMMA AnswerIsSend ==
  ASSUME ProtoInv, NEW x \in Answering, Doing(x), NEW a \in Threads \cup {None},
         Send(current, job[current], M("reply", a))
  PROVE  ThreadSend
<1>1. job[current] \in Threads /\ current \in Threads
  BY Answerer
<1>2. M("reply", a) \in Body
  <2>1. "reply" \in MsgTypes
    BY DEF MsgTypes
  <2> QED
    BY <2>1, Bodies
<1> QED
  BY <1>1, <1>2 DEF ThreadSend

(* The steps of the servers that answer. *)
LEMMA AnswersClassified ==
  ASSUME ProtoInv, DoReply \/ DoReplyChild \/ DoRestart \/ DoWaitpid \/ AddTimeEvent
  PROVE  pending' = pending /\ KernelStep
<1>0. /\ "reply" \in Answering /\ "reply_child" \in Answering /\ "restart" \in Answering
      /\ "waitpid" \in Answering /\ "add_time_event" \in Answering
      /\ None \in Threads \cup {None} /\ new \in Threads \cup {None}
  BY DEF Answering, ProtoInv, PTypeOK, ProcType
<1>1. CASE DoReply
  <2>1. Doing("reply") /\ Send(current, job[current], M("reply", None)) /\ pending' = pending
    BY <1>1 DEF DoReply, drivers
  <2> QED
    BY <1>0, <2>1, AnswerIsSend DEF KernelStep
<1>2. CASE DoReplyChild
  <2>1. /\ Doing("reply_child") /\ Send(PCB_MANAGER, job[PCB_MANAGER], M("reply", new))
        /\ pending' = pending
    BY <1>2 DEF DoReplyChild, drivers
  <2>2. current = PCB_MANAGER
    BY <2>1, Performers
  <2>3. PICK n \in Threads \cup {None} : n = new
    BY <1>0
  <2> QED
    BY <1>0, <2>1, <2>2, <2>3, AnswerIsSend DEF KernelStep
<1>3. CASE DoRestart
  <2>1. Doing("restart") /\ pending' = pending
    BY <1>3 DEF DoRestart, drivers
  <2>2. current = PCB_MANAGER
    BY <2>1, Performers
  <2>3. CASE Send(PCB_MANAGER, job[PCB_MANAGER], M("reply", None))
    BY <1>0, <2>1, <2>2, <2>3, AnswerIsSend DEF KernelStep
  <2>4. CASE ExecReset(job[PCB_MANAGER])
    <3>1. PICK p : p = job[PCB_MANAGER]
      OBVIOUS
    <3>2. p \in Processes
      BY <1>0, <2>1, <2>2, <3>1, Answerer, Callers
    <3> QED
      BY <2>1, <2>4, <3>1, <3>2 DEF KernelStep
  <2> QED
    BY <1>3, <2>3, <2>4 DEF DoRestart
<1>4. CASE DoWaitpid
  <2>1. /\ Doing("waitpid") /\ pending' = pending
        /\ UNCHANGED vars \/ Send(PCB_MANAGER, job[PCB_MANAGER], M("reply", None))
    BY <1>4 DEF DoWaitpid, drivers
  <2>2. current = PCB_MANAGER
    BY <2>1, Performers
  <2> QED
    BY <1>0, <2>1, <2>2, AnswerIsSend DEF KernelStep
<1>5. CASE AddTimeEvent
  <2>1. /\ Doing("add_time_event") /\ pending' = pending
        /\ UNCHANGED vars \/ Send(TIMER, job[TIMER], M("reply", None))
    BY <1>5 DEF AddTimeEvent
  <2>2. current = TIMER
    BY <2>1, Performers
  <2> QED
    BY <1>0, <2>1, <2>2, AnswerIsSend DEF KernelStep
<1> QED
  BY <1>1, <1>2, <1>3, <1>4, <1>5

(* The steps of ttyd: a console never keeps a read when another comes. *)
LEMMA TtyClassified ==
  ASSUME ProtoInv, ReadRequest \/ Key \/ \E c \in Consoles : KeyEnter(c)
  PROVE  pending' = pending /\ KernelStep
<1>0. "read" \in Answering /\ "reply" \in MsgTypes /\ None \in Threads \cup {None}
  BY DEF Answering, MsgTypes
<1>1. CASE ReadRequest
  <2>1. Doing("read") /\ pending' = pending
    BY <1>1 DEF ReadRequest
  <2>2. current = TTY /\ TTY \in Servers
    BY <2>1, Performers, Kinds
  <2>3. PICK c : c = job[TTY]
    OBVIOUS
  <2>4. c \in Consoles /\ Pair(c, TTY) /\ Served(c, TTY)
    BY <1>0, <2>1, <2>2, <2>3, Answerer, Callers
  <2>5. rstk[c] = <<>>
    BY <2>4 DEF Pair, Kept
  <2>6. Len(rstk[c]) # RSTK_SZ
    BY <2>5, ServicesAssumption
  <2>7. Send(TTY, c, M("reply", None)) \/ UNCHANGED vars
    BY <1>1, <2>3, <2>6 DEF ReadRequest
  <2> QED
    BY <1>0, <2>1, <2>2, <2>3, <2>7, AnswerIsSend DEF KernelStep
<1>2. CASE Key
  BY <1>2 DEF Key, drivers, KernelStep
<1>3. ASSUME NEW c \in Consoles, KeyEnter(c) PROVE pending' = pending /\ KernelStep
  <2>1. pending' = pending
    BY <1>3 DEF KeyEnter
  <2>2. CASE rstk[c] = <<>>
    BY <1>3, <2>1, <2>2 DEF KeyEnter, KernelStep
  <2>3. CASE rstk[c] # <<>>
    <3>1. Send(TTY, Last(rstk[c]), M("reply", None))
      BY <1>3, <2>3 DEF KeyEnter
    <3>2. /\ rstk[c] \in Seq(Consoles) /\ Len(rstk[c]) \in Nat /\ Len(rstk[c]) # 0
      <4>1. rstk \in [Consoles -> Seq(Consoles)]
        BY DEF ProtoInv, PTypeOK, DriverType
      <4>2. rstk[c] \in Seq(Consoles)
        BY <4>1
      <4> QED
        BY <2>3, <4>2
    <3>3. Last(rstk[c]) \in Threads
      BY <3>2, Kinds DEF Last
    <3>4. M("reply", None) \in Body /\ TTY \in Threads
      BY <1>0, Bodies, Kinds
    <3> QED
      BY <2>1, <3>1, <3>3, <3>4 DEF KernelStep, ThreadSend
  <2> QED
    BY <2>2, <2>3
<1> QED
  BY <1>1, <1>2, <1>3

(* The requests and the notification of a parent. *)
LEMMA RequestsClassified ==
  ASSUME ProtoInv, DoSend \/ DoNotify
  PROVE  pending' = pending /\ KernelStep
<1>1. CASE DoSend
  <2>1. /\ Doing("send") /\ Send(current, Head(todo[current])[2], Head(todo[current])[3])
        /\ pending' = pending
    BY <1>1 DEF DoSend, drivers
  <2>2. /\ current \in Threads /\ Head(todo[current]) = todo[current][1]
        /\ todo[current][1][1] = "send" /\ OpOK(current, todo[current][1])
    BY <2>1, DoingFacts, Performers
  <2>3. PICK v, b : v = todo[current][1][2] /\ b = todo[current][1][3]
    OBVIOUS
  <2>4. v \in Threads /\ b \in Body
    BY <2>2, <2>3, CallTypes DEF OpOK
  <2> QED
    BY <2>1, <2>2, <2>3, <2>4 DEF KernelStep, ThreadSend
<1>2. CASE DoNotify
  <2>1. /\ Doing("notify") /\ Send(PCB_MANAGER, Head(todo[current])[2], M("reply", None))
        /\ pending' = pending
    BY <1>2 DEF DoNotify, drivers
  <2>2. PICK p \in Processes : Notifies(current, p)
    BY <2>1, DoingFacts
  <2>3. Head(todo[current])[2] = p /\ p \in Threads /\ PCB_MANAGER \in Threads
    BY <2>2, Kinds DEF Notifies, Notify
  <2>4. M("reply", None) \in Body
    <3>1. "reply" \in MsgTypes
      BY DEF MsgTypes
    <3> QED
      BY <3>1, Bodies
  <2> QED
    BY <2>1, <2>3, <2>4 DEF KernelStep, ThreadSend
<1> QED
  BY <1>1, <1>2

\* irq_handle() takes a user process for part of the kernel.
FaultPanic ==
  /\ current \in Faulty \cap user /\ ~(Pid(current) > FAULT_PID) /\ pc[current] = "enabled"
  /\ Halt /\ UNCHANGED pending

(* ... and every other step of a thread. *)
LEMMA ThreadsClassified ==
  ASSUME ProtoInv,
         Start \/ Fault \/ DoReceive \/ Ignore \/ Loop \/ GettyLoop \/ Return \/ Claim \/ Take
           \/ DoTake \/ DoPlace \/ DoWakeupNew \/ DoWakeup \/ DoRelease \/ DoFinish
  PROVE  (pending' = pending /\ KernelStep) \/ OutOfPcbs \/ FaultPanic
<1>1. CASE Start \/ Fault
  BY <1>1 DEF Start, Fault, drivers, KernelStep, FaultPanic
<1>2. CASE DoReceive
  <2>1. Doing("receive") /\ ReceiveFirst(Head(todo[current])[2]) /\ pending' = pending
    BY <1>2 DEF DoReceive, drivers
  <2>2. /\ Head(todo[current]) = todo[current][1]
        /\ todo[current][1][1] = "receive" /\ OpOK(current, todo[current][1])
    BY <2>1, DoingFacts, Performers
  <2>3. PICK v : v = todo[current][1][2]
    OBVIOUS
  <2>4. v \in Sems
    BY <2>2, <2>3, CallTypes DEF OpOK, Sems, Sources
  <2> QED
    BY <2>1, <2>2, <2>3, <2>4 DEF KernelStep
<1>3. CASE Ignore \/ GettyLoop
  BY <1>3 DEF Ignore, GettyLoop, drivers, KernelStep
<1>4. CASE Loop
  <2>1. ANY \in Sems
    BY DEF Sems
  <2> QED
    BY <1>4, <2>1 DEF Loop, progs, drivers, KernelStep
<1>5. CASE Return \/ Claim \/ Take
  BY <1>5 DEF Return, Claim, Take, progs, drivers, KernelStep
<1>6. CASE DoTake
  <2>1. Doing("take") /\ pending' = pending
    BY <1>6 DEF DoTake, drivers
  <2>2. current = PCB_MANAGER
    BY <2>1, Performers
  <2> QED
    BY <1>6, <2>1, <2>2 DEF DoTake, KernelStep, OutOfPcbs
<1>7. CASE DoPlace
  <2>1. PlacePcb(new) /\ pending' = pending
    BY <1>7 DEF DoPlace, drivers
  <2>2. PICK p : p = new
    OBVIOUS
  <2>3. p \in held
    BY <2>1, <2>2 DEF PlacePcb
  <2>4. p \in Threads /\ Gone(p)
    BY <2>3 DEF ProtoInv, IInv, LInv, ListsOK, FreeOK, Gone
  <2>5. p \in Processes
    BY <2>4, Kinds DEF ProtoInv, KernelThreads
  <2> QED
    BY <2>1, <2>2, <2>5 DEF KernelStep
<1>8. CASE DoWakeupNew \/ DoWakeup \/ DoRelease
  BY <1>8 DEF DoWakeupNew, DoWakeup, DoRelease, drivers, KernelStep
<1>9. CASE DoFinish
  <2>1. Doing("finish") /\ Finish /\ pending' = pending
    BY <1>9 DEF DoFinish, drivers
  <2> QED
    BY <2>1, Performers DEF KernelStep
<1> QED
  BY <1>1, <1>2, <1>3, <1>4, <1>5, <1>6, <1>7, <1>8, <1>9

(* send() wakes up the receiver, if anybody. *)
LEMMA SendRing ==
  ASSUME IInv, NEW src \in Sources, NEW dest \in Threads, NEW body, Send(src, dest, body)
  PROVE  /\ ring' = ring \/ (dest \in wait /\ ring' = AddBefore(ring, current, dest))
         /\ UNCHANGED <<current, isr, pc>>
         /\ halted' = halted \/ Len(queue[dest]) = MSG_NUM
         /\ Sent(src, dest, body) \/ queue' = queue
<1>1. /\ BoxType /\ Blocks(dest) /\ ANY \in Sems /\ src \in Sems
  BY DEF IInv, LInv, BoxOK, Sems
<1>2. \A s \in Sems : token[dest][s] < 0 => block[dest][s] = <<dest>>
  BY <1>1 DEF Blocks
<1>3. VAsserts(dest, ANY) /\ VAsserts(dest, src)
  <2>1. ASSUME NEW s \in Sems PROVE VAsserts(dest, s)
    <3>1. SUFFICES ASSUME token[dest][s] < 0 PROVE block[dest][s] # <<>>
      BY DEF VAsserts
    <3>2. block[dest][s] = <<dest>>
      BY <1>2, <3>1
    <3> QED
      BY <3>2
  <2> QED
    BY <1>1, <2>1
<1>4. CASE FreeSlots(dest) = 0
  <2>1. queue[dest] \in Seq(Msgs)
    BY <1>1 DEF BoxType
  <2>2. Len(queue[dest]) = MSG_NUM
    BY <1>4, <2>1, KernelAssumption DEF FreeSlots
  <2> QED
    BY <1>4, <2>2 DEF Send, Halt, lists, boxes
<1>5. CASE FreeSlots(dest) # 0
  <2>1. /\ WakeupAll(VWakes(VWakes([ring |-> ring, wait |-> wait], dest, ANY), dest, src))
        /\ UNCHANGED <<isr, pc, halted>> /\ Sent(src, dest, body)
    BY <1>3, <1>5 DEF Send, Sent
  <2>2. \A st, s : s \in Sems => VWakes(st, dest, s) = st \/ VWakes(st, dest, s) = WakeupIn(st, dest)
    BY <1>2 DEF VWakes
  <2>3. PICK st : st = [ring |-> ring, wait |-> wait]
    OBVIOUS
  <2>4. PICK one : one = VWakes(st, dest, ANY)
    OBVIOUS
  <2>5. PICK two : two = VWakes(one, dest, src)
    OBVIOUS
  <2>6. PICK up : up = [ring |-> AddBefore(ring, current, dest), wait |-> wait \ {dest}]
    OBVIOUS
  <2>7. WakeupIn(st, dest) = IF dest \in wait THEN up ELSE st
    BY <2>3, <2>6 DEF WakeupIn
  <2>8. WakeupIn(up, dest) = up
    BY <2>6 DEF WakeupIn
  <2>9. two = st \/ (dest \in wait /\ two = up)
    BY <1>1, <2>2, <2>4, <2>5, <2>7, <2>8
  <2>10. ring' = two.ring /\ UNCHANGED current
    BY <2>1, <2>3, <2>4, <2>5 DEF WakeupAll
  <2> QED
    BY <2>1, <2>3, <2>6, <2>9, <2>10
<1> QED
  BY <1>4, <1>5

(* A step of the running thread that puts nothing into the box of ttyd. *)
LEMMA QuietTurn ==
  ASSUME ProtoInv, TurnInv, ProtoInv', IsFiniteSet(Threads), pending' = pending,
         UNCHANGED <<current, isr>>, pc'[TTY] = "enabled" => pc[TTY] = "enabled",
         Ints' \in Nat, Ints' <= Ints,
         ring' = ring \/ \E p \in wait : ring' = AddBefore(ring, current, p)
  PROVE  TurnInv'
<1>1. Unsent' = Unsent /\ Unsent \in {0, 1} /\ Ints \in Nat
  BY TurnSetup DEF Unsent
<1>2. Ints' + Unsent' <= Ints + Unsent
  BY <1>1
<1> QED
  BY <1>2, WakeTurn

(* wakeup() of a new thread. *)
LEMMA WakeupRing ==
  ASSUME NEW t, WakeupAll(WakeupIn([ring |-> ring, wait |-> wait], t))
  PROVE  /\ ring' = ring \/ (t \in wait /\ ring' = AddBefore(ring, current, t))
         /\ UNCHANGED current
BY DEF WakeupAll, WakeupIn

(* The steps of threads. *)
LEMMA KernelTurn ==
  ASSUME ProtoInv, TurnInv, ProtoInv', IsFiniteSet(Threads), pending' = pending, KernelStep
  PROVE  TurnInv'
<1>0. /\ Ints \in Nat /\ TTY \in Threads /\ queue[TTY] \in Seq(Msgs) /\ BoxType /\ IInv
      /\ isr \in BOOLEAN /\ On(ring, current) /\ TTY \in Servers
  BY TurnSetup, Kinds DEF ProtoInv, IInv, LInv
<1>a. queue'[TTY] = queue[TTY] => Ints' = Ints
  BY DEF Ints
<1>1. CASE UNCHANGED vars
  BY <1>0, <1>1, <1>a, QuietTurn DEF vars, lists, boxes
<1>2. CASE Enter
  <2>1. pc'[TTY] = "enabled" => pc[TTY] = "enabled"
    BY <1>0, <1>2 DEF Enter, BoxType
  <2> QED
    BY <1>0, <1>2, <1>a, <2>1, QuietTurn DEF Enter, lists, boxes
<1>3. CASE SyscallReturn
  <2>1. current # TTY
    BY <1>0, <1>3, Kinds DEF SyscallReturn, ProtoInv, KernelThreads
  <2>2. pc'[TTY] = pc[TTY]
    BY <1>0, <1>3, <2>1 DEF SyscallReturn, BoxType
  <2>3. isr = FALSE /\ pending = {}
    BY <1>0, <1>3 DEF SyscallReturn, InThread, Running, TurnInv
  <2> QED
    BY <1>3, <1>a, <2>1, <2>2, <2>3, RotateTurn DEF SyscallReturn, Reschedule, boxes
<1>4. CASE ThreadSend
  <2>1. PICK src \in Threads, dest \in Threads, body \in Body : Send(src, dest, body)
    BY <1>4 DEF ThreadSend
  <2>2. src \in Sources /\ src # Intr
    BY KernelAssumption DEF Sources
  <2>3. /\ ring' = ring \/ (dest \in wait /\ ring' = AddBefore(ring, current, dest))
        /\ UNCHANGED <<current, isr, pc>>
        /\ Sent(src, dest, body) \/ queue' = queue
    BY <1>0, <2>1, <2>2, SendRing
  <2>4. Ints' = Ints
    <3>1. CASE queue'[TTY] = queue[TTY]
      BY <1>a, <3>1
    <3>2. CASE queue'[TTY] # queue[TTY]
      <4>1. PICK e : e = [src |-> src, body |-> body]
        OBVIOUS
      <4>2. e \in Msgs /\ e.src # Intr
        BY <2>2, <4>1 DEF Msgs
      <4>3. queue'[TTY] = Append(queue[TTY], e)
        BY <1>0, <2>3, <3>2, <4>1 DEF Sent, BoxType
      <4>4. Count(Append(queue[TTY], e), Intr) = Count(queue[TTY], Intr) + 0
        BY <1>0, <4>2, CountAppend
      <4> QED
        BY <1>0, <4>3, <4>4 DEF Ints
    <3> QED
      BY <3>1, <3>2
  <2> QED
    BY <1>0, <2>3, <2>4, QuietTurn
<1>5. ASSUME NEW s \in Sems, ReceiveFirst(s) PROVE TurnInv'
  <2>1. /\ InThread /\ P(s, "second") /\ isr' = isr /\ queue' = queue
    BY <1>5 DEF ReceiveFirst, P
  <2>2. /\ current \in Threads /\ current # Idle /\ ~isr
    BY <1>0, <2>1, RunningFacts DEF InThread, Running
  <2>3. pc' = [pc EXCEPT ![current] = "second"]
    BY <2>1 DEF P
  <2>4. pc'[TTY] = "enabled" => pc[TTY] = "enabled" /\ current # TTY
    BY <1>0, <2>2, <2>3 DEF BoxType
  <2>5. CASE token[current][s] > 0
    <3>1. UNCHANGED <<ring, current>>
      BY <2>1, <2>5 DEF P, lists
    <3> QED
      BY <1>0, <1>a, <2>1, <2>4, <3>1, QuietTurn
  <2>6. CASE ~(token[current][s] > 0)
    <3>1. Sleep
      BY <2>1, <2>6 DEF P
    <3> QED
      BY <1>a, <2>1, <2>2, <2>4, <3>1, LeaveTurn DEF Sleep
  <2> QED
    BY <2>5, <2>6
<1>6. CASE ReceiveSecond
  <2>1. /\ Running /\ pc[current] = "second"
    BY <1>6 DEF ReceiveSecond
  <2>2. /\ current \in Threads /\ InRing(current) /\ BoxOK(current)
    BY <1>0, <2>1, RunningFacts DEF IInv
  <2>3. PICK s : s = IF from[current] = ANY THEN Head(queue[current]).src ELSE ANY
    OBVIOUS
  <2>4. queue[current] # <<>> /\ token[current][s] > 0
    BY <1>0, <2>1, <2>2, <2>3, SecondReady
  <2>5. P(s, "take")
    BY <1>6, <2>3, <2>4 DEF ReceiveSecond
  <2>6. /\ pc' = [pc EXCEPT ![current] = "take"] /\ UNCHANGED <<ring, current, isr, queue>>
    BY <2>4, <2>5 DEF P, lists
  <2>7. pc'[TTY] = "enabled" => pc[TTY] = "enabled"
    BY <1>0, <2>2, <2>6 DEF BoxType
  <2> QED
    BY <1>0, <1>a, <2>6, <2>7, QuietTurn
<1>7. CASE ReceiveTake
  <2>1. /\ current \in Threads /\ UNCHANGED <<current, isr>>
        /\ Found(queue[current], from[current]) \in 1..Len(queue[current])
        /\ queue' = [queue EXCEPT ![current] = RemoveAt(@, Found(@, from[current]))]
        /\ pc' = [pc EXCEPT ![current] = "run"]
    BY <1>7, TakeFinds
  <2>2. ring' = ring
    BY <1>7 DEF ReceiveTake, Halt, lists
  <2>3. pc'[TTY] = "enabled" => pc[TTY] = "enabled"
    BY <1>0, <2>1 DEF BoxType
  <2>4. Ints' \in Nat /\ Ints' <= Ints
    <3>1. CASE current # TTY
      BY <1>0, <1>a, <2>1, <3>1 DEF BoxType
    <3>2. CASE current = TTY
      <4>1. PICK q, k : q = queue[TTY] /\ k = Found(queue[TTY], from[TTY])
        OBVIOUS
      <4>2. q \in Seq(Msgs) /\ k \in 1..Len(q) /\ queue'[TTY] = RemoveAt(q, k)
        BY <1>0, <2>1, <3>2, <4>1 DEF BoxType
      <4>3. RemoveAt(q, k) \in Seq(Msgs)
        BY <4>2, RemoveAtProperties
      <4>4. /\ Count(RemoveAt(q, k), Intr) = Count(q, Intr) - (IF q[k].src = Intr THEN 1 ELSE 0)
            /\ Count(RemoveAt(q, k), Intr) \in Nat /\ Count(q, Intr) \in Nat
        BY <4>2, <4>3, CountRemove, CountType
      <4>5. Ints' = Count(RemoveAt(q, k), Intr) /\ Ints = Count(q, Intr)
        BY <4>1, <4>2 DEF Ints
      <4>6. Count(RemoveAt(q, k), Intr) <= Count(q, Intr)
        BY <4>4
      <4> QED
        BY <4>4, <4>5, <4>6
    <3> QED
      BY <3>1, <3>2
  <2> QED
    BY <2>1, <2>2, <2>3, <2>4, QuietTurn
<1>8. CASE TakePcb
  BY <1>0, <1>8, <1>a, QuietTurn DEF TakePcb, boxes
<1>9. CASE Finish /\ current \in Processes
  <2>1. current # TTY /\ current # Idle /\ ~isr
    BY <1>0, <1>9, Kinds DEF Finish, InThread, Running
  <2> QED
    BY <1>9, <1>a, <2>1, LeaveTurn DEF Finish, boxes
<1>10. ASSUME NEW t, WakeupNew(t) PROVE TurnInv'
  <2>1. /\ ring' = ring \/ (t \in wait /\ ring' = AddBefore(ring, current, t))
        /\ UNCHANGED current
    BY <1>10, WakeupRing DEF WakeupNew
  <2> QED
    BY <1>0, <1>10, <1>a, <2>1, QuietTurn DEF WakeupNew, boxes
<1>11. ASSUME NEW t, ReleasePcb(t) PROVE TurnInv'
  BY <1>0, <1>11, <1>a, QuietTurn DEF ReleasePcb, boxes
<1>12. ASSUME NEW t \in Processes, PlacePcb(t) \/ ExecReset(t) PROVE TurnInv'
  <2>1. t # TTY /\ t \in Threads
    BY <1>0, Kinds
  <2>2. InitMsg(t) /\ pc' = [pc EXCEPT ![t] = "enabled"] /\ isr' = isr
    BY <1>12 DEF PlacePcb, ExecReset
  <2>3. queue'[TTY] = queue[TTY] /\ pc'[TTY] = pc[TTY]
    BY <1>0, <2>1, <2>2 DEF InitMsg, BoxType
  <2>4. /\ ring' = ring \/ (t \in wait /\ ring' = AddBefore(ring, current, t))
        /\ UNCHANGED current
    BY <1>12, WakeupRing DEF PlacePcb, ExecReset
  <2> QED
    BY <1>0, <1>a, <2>2, <2>3, <2>4, QuietTurn
<1> QED
  BY <1>1, <1>2, <1>3, <1>4, <1>5, <1>6, <1>7, <1>8, <1>9, <1>10, <1>11, <1>12 DEF KernelStep

(* An interrupt sends to ttyd what it has announced, and to sleepers. *)
LEMMA IrqSendTurn ==
  ASSUME ProtoInv, TurnInv, ProtoInv', IsFiniteSet(Threads), IrqSend
  PROVE  TurnInv'
<1>1. PICK m \in pending : Send(m[1], m[2], m[3]) /\ pending' = pending \ {m}
  BY DEF IrqSend
<1>2. /\ IInv /\ BoxType /\ TTY \in Threads /\ queue[TTY] \in Seq(Msgs)
      /\ Ints \in Nat /\ Unsent \in {0, 1}
  BY TurnSetup DEF ProtoInv, IInv, LInv
<1>3. /\ m[1] \in Sources /\ m[2] \in Threads /\ m[3] \in Body
      /\ m[1] = Intr \/ m[1] = TIMER
  <2>1. pending \subseteq {<<Intr, TTY, M(u, None)>> : u \in {"key", "update"}}
                           \cup {<<TIMER, t, M("reply", None)>> : t \in Processes}
    BY DEF ProtoInv, PTypeOK, DriverType
  <2>2. /\ \A x \in {"key", "update", "reply"} : M(x, None) \in Body
        /\ TTY \in Threads /\ TIMER \in Threads /\ Processes \subseteq Threads
    <3>1. \A x \in {"key", "update", "reply"} : x \in MsgTypes
      BY DEF MsgTypes
    <3> QED
      BY <3>1, Bodies, Kinds
  <2> QED
    BY <1>1, <2>1, <2>2 DEF Sources
<1>4. PICK src, dest, body : src = m[1] /\ dest = m[2] /\ body = m[3]
  OBVIOUS
<1>5. /\ ring' = ring \/ (dest \in wait /\ ring' = AddBefore(ring, current, dest))
      /\ UNCHANGED <<current, isr, pc>>
      /\ Sent(src, dest, body) \/ queue' = queue
  BY <1>1, <1>2, <1>3, <1>4, SendRing
<1>6. PICK e : e = [src |-> src, body |-> body]
  OBVIOUS
<1>7. e \in Msgs /\ e.src = src
  BY <1>3, <1>4, <1>6 DEF Msgs
<1>8. queue'[TTY] = queue[TTY] \/ queue'[TTY] = Append(queue[TTY], e)
  BY <1>2, <1>3, <1>4, <1>5, <1>6 DEF Sent, BoxType
<1>9. Ints' = Ints \/ Ints' = Ints + (IF src = Intr THEN 1 ELSE 0)
  <2>1. Count(Append(queue[TTY], e), Intr) = Count(queue[TTY], Intr) + (IF src = Intr THEN 1 ELSE 0)
    BY <1>2, <1>7, CountAppend
  <2> QED
    BY <1>8, <2>1 DEF Ints
<1>10. Unsent' \in {0, 1} /\ Unsent' <= Unsent
  BY <1>1 DEF Unsent
<1>11. src = Intr => Unsent = 1 /\ Unsent' = 0
  BY <1>1, <1>4 DEF Unsent, TurnInv
<1>12. Ints' \in Nat /\ Ints' + Unsent' <= Ints + Unsent
  BY <1>2, <1>9, <1>10, <1>11
<1>13. pending' \in SUBSET pending
  BY <1>1
<1> QED
  BY <1>5, <1>12, <1>13, WakeTurn

(* Every step. *)
LEMMA NextTurn ==
  ASSUME ProtoInv, TurnInv, ProtoInv', IsFiniteSet(Threads), [SNext]_svars
  PROVE  TurnInv'
<1>1. ASSUME pending' = pending, KernelStep PROVE TurnInv'
  BY <1>1, KernelTurn
<1>2. CASE DoReply \/ DoReplyChild \/ DoRestart \/ DoWaitpid \/ AddTimeEvent
  BY <1>1, <1>2, AnswersClassified
<1>3. CASE ReadRequest \/ Key \/ \E c \in Consoles : KeyEnter(c)
  BY <1>1, <1>3, TtyClassified
<1>4. CASE DoSend \/ DoNotify
  BY <1>1, <1>4, RequestsClassified
<1>5. ASSUME OutOfPcbs \/ FaultPanic PROVE TurnInv'
  <2>1. UNCHANGED <<ring, current, isr, pc, queue, pending>>
    BY <1>5 DEF OutOfPcbs, FaultPanic, Halt, lists, boxes
  <2>2. Ints' = Ints /\ Ints \in Nat
    BY <2>1, TurnSetup DEF Ints
  <2> QED
    BY <2>1, <2>2, QuietTurn
<1>6. CASE Start \/ Fault \/ DoReceive \/ Ignore \/ Loop \/ GettyLoop \/ Return \/ Claim \/ Take
             \/ DoTake \/ DoPlace \/ DoWakeupNew \/ DoWakeup \/ DoRelease \/ DoFinish
  BY <1>1, <1>5, <1>6, ThreadsClassified
<1>7. ASSUME IrqArrives PROVE /\ ~isr /\ isr' = TRUE /\ current # TTY /\ pc' = pc
                              /\ Ints' = Ints /\ ring' = ring /\ current' = current
  <2>1. /\ isr' = TRUE /\ UNCHANGED <<pc, queue, ring, current>> /\ ~isr
    BY <1>7 DEF IrqArrives, IrqBegin, InterruptsOn, lists, boxes
  <2>2. TTY # Idle /\ TTY \notin user
    BY Kinds, KernelAssumption DEF ProtoInv, KernelThreads
  <2> QED
    BY <1>7, <2>1, <2>2 DEF IrqArrives, Ints
<1>8. CASE IrqKey
  <2>1. IrqArrives /\ \A m, n \in pending' : m = n
    BY <1>8 DEF IrqKey
  <2> QED
    BY <1>7, <2>1, BeginTurn
<1>9. ASSUME NEW due \in SUBSET sleepers, IrqTimer(due) PROVE TurnInv'
  <2>1. IrqArrives
    BY <1>9 DEF IrqTimer
  <2>2. PICK upd \in SUBSET (Irqs \cap {"update"}) :
          pending' = {<<Intr, TTY, M(u, None)>> : u \in upd}
                       \cup {<<TIMER, t, M("reply", None)>> : t \in due}
    BY <1>9 DEF IrqTimer
  <2>3. TIMER # Intr
    BY Kinds, KernelAssumption
  <2>4. ASSUME NEW m \in pending', m[1] = Intr PROVE m = <<Intr, TTY, M("update", None)>>
    BY <2>2, <2>3, <2>4
  <2> QED
    BY <1>7, <2>1, <2>4, BeginTurn
<1>10. CASE IrqSend
  BY <1>10, IrqSendTurn
<1>11. CASE IrqReturn
  <2>1. /\ pending = {} /\ pending' = {} /\ isr /\ isr' = FALSE /\ Reschedule
        /\ UNCHANGED <<pc, queue>>
    BY <1>11 DEF IrqReturn, IrqEnd, progs, drivers, boxes
  <2>2. current # TTY
    BY <2>1 DEF TurnInv
  <2>3. Ints' = Ints
    BY <2>1 DEF Ints
  <2> QED
    BY <2>1, <2>2, <2>3, RotateTurn DEF Reschedule
<1>12. CASE UNCHANGED svars
  <2>1. UNCHANGED vars /\ pending' = pending
    BY <1>12 DEF svars, progs, drivers
  <2> QED
    BY <1>1, <2>1 DEF KernelStep
<1> QED
  BY <1>2, <1>3, <1>4, <1>6, <1>8, <1>9, <1>10, <1>11, <1>12 DEF SNext, ServiceStep, ManagerStep

(* After init_proc() ttyd waits in the ring for its first turn. *)
LEMMA InitTurn ==
  ASSUME SInit, IsFiniteSet(Threads)
  PROVE  TurnInv
<1>1. ProtoInv /\ Init
  BY InitProto DEF SInit
<1>2. /\ wait = {} /\ held = {} /\ free = Pool /\ current = Idle /\ isr = FALSE
      /\ queue = [t \in Threads |-> <<>>] /\ pending = {}
  BY <1>1 DEF Init, SInit
<1>3. TTY \in Threads /\ On(Boot, TTY) /\ TTY # Idle
  BY Kinds, ServicesAssumption, KernelAssumption
<1>4. InRing(TTY)
  <2>1. PcbInOneList
    BY <1>1, LInvIsInvariant DEF ProtoInv, IInv
  <2>2. ~On(free, TTY)
    BY <1>2, <1>3, KernelAssumption
  <2> QED
    BY <1>2, <1>3, <2>1, <2>2 DEF PcbInOneList, InFree
<1>5. Ints = 0 /\ Unsent = 0
  <2>1. queue[TTY] = <<>>
    BY <1>2, <1>3
  <2> QED
    BY <1>2, <2>1, CountEmpty DEF Ints, Unsent
<1>6. Load(ring, current, isr, Ints, Unsent)
  <2>1. PICK r : r = ring
    OBVIOUS
  <2>2. Ring(r) /\ On(r, Idle) /\ On(r, TTY)
    BY <1>1, <1>2, <1>4, <2>1 DEF ProtoInv, IInv, LInv, ListsOK, RingOK, Ring, InRing
  <2>3. PICK m, n : m = Turns(r, Idle, TTY) /\ n = Cardinality(Threads)
    OBVIOUS
  <2>4. m \in Nat /\ n \in Nat /\ m <= n
    BY <1>3, <2>2, <2>3, RingTurns
  <2>5. 0 + m + 0 <= n + 0
    BY <2>4
  <2>6. Load(r, Idle, FALSE, 0, 0)
    BY <1>3, <2>3, <2>5 DEF Load
  <2> QED
    BY <1>2, <1>5, <2>1, <2>6
<1> QED
  BY <1>2, <1>4, <1>6 DEF TurnInv

(* There is always a free node in every box. *)
LEMMA BoxRoom ==
  ASSUME ProtoInv, TurnInv, IsFiniteSet(Threads), 2 * Cardinality(Threads) <= MSG_NUM,
         NEW t \in Threads
  PROVE  Len(queue[t]) # MSG_NUM
<1>1. PICK n, l, k : n = Cardinality(Threads) /\ l = Len(queue[t]) /\ k = Count(queue[t], Intr)
  OBVIOUS
<1>2. l \in Nat /\ n \in Nat /\ k \in Nat /\ l <= n - 1 + k
  BY <1>1, BoxLength
<1>3. k <= n
  <2>1. CASE t # TTY
    <3>1. \A i \in 1..Len(queue[t]) : queue[t][i].src # Intr
      <4> SUFFICES ASSUME NEW i \in 1..Len(queue[t]) PROVE queue[t][i].src # Intr
        OBVIOUS
      <4>1. MsgOK(t, queue[t][i])
        BY DEF ProtoInv, BoxesOK
      <4>2. PICK m : m = queue[t][i]
        OBVIOUS
      <4> QED
        BY <2>1, <4>1, <4>2, CallTypes DEF MsgOK
    <3>2. queue[t] \in Seq(Msgs)
      BY DEF ProtoInv, IInv, LInv, BoxType
    <3>3. ~(Count(queue[t], Intr) > 0)
      BY <3>1, <3>2, CountType
    <3> QED
      BY <1>1, <1>2, <3>3
  <2>2. CASE t = TTY
    <3>1. k = Ints
      BY <1>1, <2>2 DEF Ints
    <3>2. CASE InRing(TTY)
      <4>1. PICK r, c, i, u : r = ring /\ c = current /\ i = isr /\ u = Unsent
        OBVIOUS
      <4>2. /\ Ring(r) /\ On(r, c) /\ u \in {0, 1} /\ Load(r, c, i, k, u) /\ On(r, TTY)
        BY <3>1, <3>2, <4>1, TurnSetup DEF TurnInv, InRing
      <4>3. CASE c = TTY
        BY <1>1, <4>2, <4>3 DEF Load
      <4>4. CASE c # TTY
        <5>1. PICK h : h = Turns(r, c, TTY)
          OBVIOUS
        <5>2. h \in Nat /\ h >= 1
          BY <4>2, <4>4, <5>1, RingTurns
        <5>3. k + h + u <= n + (IF i THEN 1 ELSE 0)
          BY <1>1, <4>2, <4>4, <5>1 DEF Load
        <5> QED
          BY <1>2, <4>2, <5>2, <5>3
      <4> QED
        BY <4>3, <4>4
    <3>3. CASE ~InRing(TTY)
      <4>1. TTY \in wait
        <5>1. PcbInOneList
          BY LInvIsInvariant DEF ProtoInv, IInv
        <5>2. ~Gone(TTY) /\ TTY \in Threads
          BY Kinds DEF ProtoInv, KernelThreads
        <5> QED
          BY <3>3, <5>1, <5>2 DEF PcbInOneList, InFree, Gone
      <4> QED
        BY <1>2, <3>1, <4>1, TtyAsleep
    <3> QED
      BY <3>2, <3>3
  <2> QED
    BY <2>1, <2>2
<1>4. l # MSG_NUM
  <2>1. PICK g : g = MSG_NUM
    OBVIOUS
  <2>2. g \in Nat /\ 2 * n <= g
    BY <1>1, <2>1, KernelAssumption
  <2> QED
    BY <1>2, <1>3, <2>1, <2>2
<1> QED
  BY <1>1, <1>4

(* So no step of a thread stops the kernel. *)
LEMMA KernelRunsOn ==
  ASSUME ProtoInv, TurnInv, IsFiniteSet(Threads), 2 * Cardinality(Threads) <= MSG_NUM,
         KernelStep
  PROVE  halted' = halted
<1>0. IInv /\ BoxType
  BY DEF ProtoInv, IInv, LInv
<1>1. CASE UNCHANGED vars \/ Enter \/ SyscallReturn \/ TakePcb \/ Finish
  BY <1>1 DEF vars, Enter, SyscallReturn, TakePcb, Finish
<1>2. CASE ThreadSend
  <2>1. PICK src \in Threads, dest \in Threads, body \in Body : Send(src, dest, body)
    BY <1>2 DEF ThreadSend
  <2>2. src \in Sources
    BY DEF Sources
  <2>3. halted' = halted \/ Len(queue[dest]) = MSG_NUM
    BY <1>0, <2>1, <2>2, SendRing
  <2> QED
    BY <2>3, BoxRoom
<1>3. ASSUME NEW s \in Sems, ReceiveFirst(s) PROVE halted' = halted
  BY <1>3 DEF ReceiveFirst, P
<1>4. CASE ReceiveSecond
  <2>1. Running /\ pc[current] = "second"
    BY <1>4 DEF ReceiveSecond
  <2>2. current \in Threads /\ InRing(current) /\ BoxOK(current)
    BY <1>0, <2>1, RunningFacts
  <2>3. queue[current] # <<>>
    BY <1>0, <2>1, <2>2, SecondReady
  <2> QED
    BY <1>4, <2>3 DEF ReceiveSecond, P
<1>5. CASE ReceiveTake
  <2>1. Running /\ pc[current] = "take"
    BY <1>5 DEF ReceiveTake
  <2>2. current \in Threads /\ BoxOK(current)
    BY <1>0, <2>1, RunningFacts
  <2>3. queue[current] # <<>>
    BY <1>0, <2>1, <2>2, TakeReady
  <2> QED
    BY <1>5, <2>3 DEF ReceiveTake
<1>6. ASSUME NEW t, WakeupNew(t) \/ ReleasePcb(t) \/ PlacePcb(t) \/ ExecReset(t)
      PROVE  halted' = halted
  BY <1>6 DEF WakeupNew, ReleasePcb, PlacePcb, ExecReset
<1> QED
  BY <1>1, <1>2, <1>3, <1>4, <1>5, <1>6 DEF KernelStep

(* A kernel that has stopped takes no step. *)
LEMMA StoppedForGood ==
  ASSUME halted, SNext
  PROVE  FALSE
<1>1. ~Running /\ ~InThread /\ ~InKernel /\ \A x : ~Doing(x)
  BY DEF Running, InThread, InKernel, Doing
<1>2. CASE ManagerStep
  BY <1>1, <1>2 DEF ManagerStep, DoTake, DoPlace, DoWakeupNew, DoReplyChild, DoWakeup,
                    DoRestart, DoRelease, DoNotify, DoWaitpid, DoFinish
<1>3. CASE Start \/ Fault \/ Return \/ Claim \/ Take
  BY <1>1, <1>3 DEF Start, Enter, Fault, Return, SyscallReturn, Claim, ReceiveSecond, Take,
                    ReceiveTake
<1>4. CASE DoSend \/ DoReceive \/ DoReply \/ Ignore \/ Loop \/ GettyLoop
  BY <1>1, <1>4 DEF DoSend, DoReceive, DoReply, Ignore, Loop, GettyLoop
<1>5. CASE ReadRequest \/ Key \/ AddTimeEvent \/ \E c \in Consoles : KeyEnter(c)
  BY <1>1, <1>5 DEF ReadRequest, Key, AddTimeEvent, KeyEnter
<1>6. CASE IrqKey \/ IrqReturn \/ \E due \in SUBSET sleepers : IrqTimer(due)
  BY <1>6 DEF IrqKey, IrqReturn, IrqEnd, IrqTimer, IrqArrives, IrqBegin
<1>7. CASE IrqSend
  BY <1>1, <1>7 DEF IrqSend, Send
<1> QED
  BY <1>2, <1>3, <1>4, <1>5, <1>6, <1>7 DEF SNext, ServiceStep

(* The stopping steps of the kernel. *)
LEMMA NextStops ==
  ASSUME ProtoInv, TurnInv, IsFiniteSet(Threads), 2 * Cardinality(Threads) <= MSG_NUM,
         SNext
  PROVE  halted' = halted \/ OutOfPcbs \/ FaultPanic
<1>1. CASE DoReply \/ DoReplyChild \/ DoRestart \/ DoWaitpid \/ AddTimeEvent
  BY <1>1, AnswersClassified, KernelRunsOn
<1>2. CASE ReadRequest \/ Key \/ \E c \in Consoles : KeyEnter(c)
  BY <1>2, TtyClassified, KernelRunsOn
<1>3. CASE DoSend \/ DoNotify
  BY <1>3, RequestsClassified, KernelRunsOn
<1>4. CASE Start \/ Fault \/ DoReceive \/ Ignore \/ Loop \/ GettyLoop \/ Return \/ Claim \/ Take
             \/ DoTake \/ DoPlace \/ DoWakeupNew \/ DoWakeup \/ DoRelease \/ DoFinish
  BY <1>4, ThreadsClassified, KernelRunsOn
<1>5. CASE IrqKey \/ IrqReturn \/ \E due \in SUBSET sleepers : IrqTimer(due)
  BY <1>5 DEF IrqKey, IrqReturn, IrqEnd, IrqTimer, IrqArrives, IrqBegin
<1>6. CASE IrqSend
  <2>1. PICK m \in pending : Send(m[1], m[2], m[3])
    BY <1>6 DEF IrqSend
  <2>2. m[1] \in Sources /\ m[2] \in Threads
    <3>1. pending \subseteq {<<Intr, TTY, M(u, None)>> : u \in {"key", "update"}}
                             \cup {<<TIMER, t, M("reply", None)>> : t \in Processes}
      BY DEF ProtoInv, PTypeOK, DriverType
    <3>2. TTY \in Threads /\ TIMER \in Threads /\ Processes \subseteq Threads
      BY Kinds
    <3> QED
      BY <2>1, <3>1, <3>2 DEF Sources
  <2>3. halted' = halted \/ Len(queue[m[2]]) = MSG_NUM
    BY <2>1, <2>2, SendRing DEF ProtoInv
  <2> QED
    BY <2>2, <2>3, BoxRoom
<1> QED
  BY <1>1, <1>2, <1>3, <1>4, <1>5, <1>6 DEF SNext, ServiceStep, ManagerStep

(* None of the assertions of the kernel fails and no box overflows: it stops
   only when fork() or create_process() finds no PCB, or when a program faults
   in a process that irq_handle() takes for part of the kernel.  This is so for
   any finite number of PCBs with at least two message nodes per PCB in each box
   (50 PCBs and 100 nodes in process.h), whatever programs fault. *)
THEOREM StopsAreExplained ==
  ASSUME IsFiniteSet(Threads), 2 * Cardinality(Threads) <= MSG_NUM
  PROVE  SSpec => []StopsByFaultOrOutOfPcbs
<1> DEFINE I == TurnInv /\ StopsByFaultOrOutOfPcbs
<1>1. SInit => I
  <2>1. SInit => ~halted
    BY DEF SInit, Init
  <2> QED
    BY <2>1, InitTurn DEF StopsOnlyOutOfPcbs, StopsByFaultOrOutOfPcbs
<1>2. ProtoInv /\ ProtoInv' /\ I /\ [SNext]_svars => I'
  <2> SUFFICES ASSUME ProtoInv, ProtoInv', TurnInv, StopsByFaultOrOutOfPcbs, [SNext]_svars
               PROVE  TurnInv' /\ StopsByFaultOrOutOfPcbs'
    OBVIOUS
  <2>1. TurnInv'
    BY NextTurn
  <2>2. CASE UNCHANGED svars
    <3>1. UNCHANGED <<halted, todo, free, current, pc, user>>
      BY <2>2 DEF svars, vars, lists, progs
    <3> QED
      BY <2>1, <3>1, Zenon DEF StopsOnlyOutOfPcbs, StopsByFaultOrOutOfPcbs
  <2>3. CASE SNext
    <3>1. ~halted
      BY <2>3, StoppedForGood
    <3>2. CASE halted' = halted
      BY <2>1, <3>1, <3>2, Zenon DEF StopsOnlyOutOfPcbs, StopsByFaultOrOutOfPcbs
    <3>3. CASE OutOfPcbs
      <4>1. /\ UNCHANGED <<todo, free>> /\ free = <<>> /\ Doing("take") /\ current = PCB_MANAGER
        BY <3>3 DEF OutOfPcbs, Halt, lists
      <4>2. /\ todo[PCB_MANAGER] # <<>> /\ todo[PCB_MANAGER][1][1] = "take"
            /\ Head(todo[PCB_MANAGER]) = todo[PCB_MANAGER][1]
            /\ OpOK(current, todo[PCB_MANAGER][1]) /\ todo[PCB_MANAGER] \in Seq(Ops)
        BY <4>1, DoingFacts, Performers, Kinds DEF ProtoInv, PTypeOK
      <4>3. todo[PCB_MANAGER][1] = <<"take">>
        <5>1. todo[PCB_MANAGER][1] \in Ops
          BY <4>2
        <5>2. PICK op \in Ops : op = todo[PCB_MANAGER][1] /\ op[1] = "take"
          BY <4>2, <5>1
        <5> QED
          BY <5>2 DEF Ops
      <4> QED
        BY <2>1, <4>1, <4>2, <4>3, Zenon DEF StopsOnlyOutOfPcbs, StopsByFaultOrOutOfPcbs
    <3>4. CASE FaultPanic
      <4>1. UNCHANGED <<current, pc, user>>
        BY <3>4 DEF FaultPanic, Halt, lists
      <4> QED
        BY <2>1, <3>4, <4>1, Zenon DEF FaultPanic, StopsByFaultOrOutOfPcbs, Pid
    <3> QED
      BY <2>3, <3>2, <3>3, <3>4, NextStops
  <2> QED
    BY <2>1, <2>2, <2>3
<1> QED
  BY <1>1, <1>2, RequestsFollowProtocol, PTL DEF SSpec

(* The same where irq_handle() takes no faulty program for part of the kernel:
   the one way to stop is fork() or create_process() out of PCBs. *)
THEOREM NoAssertionFails ==
  ASSUME IsFiniteSet(Threads), 2 * Cardinality(Threads) <= MSG_NUM,
         \A t \in Faulty : Pid(t) > FAULT_PID
  PROVE  SSpec => []StopsOnlyOutOfPcbs
<1>1. StopsByFaultOrOutOfPcbs => StopsOnlyOutOfPcbs
  BY DEF StopsByFaultOrOutOfPcbs
<1> QED
  BY <1>1, StopsAreExplained, PTL
=============================================================================
