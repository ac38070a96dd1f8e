------------------------------- MODULE Timer -------------------------------
(***************************************************************************)
(* The timer driver (drivers/timer/timer.c): processes that sleep, kept in *)
(* wait_queue as differences between one deadline and the next, so that a  *)
(* second that passes touches the first node only.                         *)
(*                                                                         *)
(* The timer thread (add_time_event) and the clock interrupt (update_jiffy *)
(* and time_event_proc) share the queue.  Either runs with interrupts      *)
(* disabled, so one is never in the middle of the queue while the other    *)
(* is; the loops of both are steps of their own here (at).                 *)
(*                                                                         *)
(* What a process asks for is kept beside the queue, in left: the seconds  *)
(* until it is due.                                                        *)
(***************************************************************************)
EXTENDS Lists

CONSTANTS Pids,     \* the processes that may sleep
          Secs,     \* the arguments of sleep()
          HZ,       \* clock interrupts in a second
          NODES     \* nodes in time_vec

ASSUME TimerAssumption ==
  /\ IsFiniteSet(Pids) /\ Secs \subseteq Int
  /\ HZ \in Nat \ {0} /\ NODES \in Nat

VARIABLES
  wait_queue,  \* the nodes in use, in order: pid, and sec after the one before
  free_list,   \* how many nodes it has
  new_time,    \* the node that add_time_event() is about to insert
  at,          \* "idle", the loop of add_time_event(), or of time_event_proc()
  ptr,         \* the loop's position in wait_queue
  jiffy,       \* modulo HZ
  left,        \* per process: seconds until it is due, 0 when it is awake
  immediate,   \* history: requests with sec <= 0
  exhausted    \* the head of free_list has been used as a node

tvars == <<wait_queue, free_list, new_time, at, ptr, jiffy, left, immediate, exhausted>>

Nodes == [pid : Pids, sec : Int]

Queued(p) == \E i \in 1..Len(wait_queue) : wait_queue[i].pid = p
-----------------------------------------------------------------------------
(* add_time_event() *)

StartAdding(p, sec) ==
  /\ new_time' = [pid |-> p, sec |-> sec]
  /\ at' = "adding" /\ ptr' = 1
  /\ left' = [left EXCEPT ![p] = sec]
  /\ UNCHANGED immediate

\* A process that is awake asks to sleep for sec; the first free node is taken
\* unseen.  sec <= 0 is answered at once, and the node is not put back.
AddTimeEvent(p, sec) ==
  /\ ~exhausted /\ at = "idle" /\ left[p] = 0
  /\ IF free_list = 0
     THEN exhausted' = TRUE /\ UNCHANGED <<free_list, new_time, at, ptr, left, immediate>>
     ELSE /\ free_list' = free_list - 1
          /\ IF sec <= 0
             THEN immediate' = immediate + 1 /\ UNCHANGED <<new_time, at, ptr, left>>
             ELSE StartAdding(p, sec)
          /\ UNCHANGED exhausted
  /\ UNCHANGED <<wait_queue, jiffy>>

\* The new deadline is not before that of node ptr.
Behind == ptr <= Len(wait_queue) /\ new_time.sec >= wait_queue[ptr].sec

\* Mutant: the difference to an equal node is not taken.
PassNodeEqual ==
  /\ at = "adding" /\ Behind
  /\ new_time' = [new_time EXCEPT !.sec = IF @ = wait_queue[ptr].sec THEN @ ELSE @ - wait_queue[ptr].sec]
  /\ ptr' = ptr + 1
  /\ UNCHANGED <<wait_queue, free_list, at, jiffy, left, immediate, exhausted>>

\* Go on behind node ptr.
PassNode ==
  /\ at = "adding" /\ Behind
  /\ new_time' = [new_time EXCEPT !.sec = @ - wait_queue[ptr].sec]
  /\ ptr' = ptr + 1
  /\ UNCHANGED <<wait_queue, free_list, at, jiffy, left, immediate, exhausted>>

\* Mutant: the node behind the new one keeps its sec.
InsertNodeKeeps ==
  /\ at = "adding" /\ ~Behind
  /\ wait_queue' = IF ptr > Len(wait_queue) THEN Append(wait_queue, new_time)
                    ELSE InsertAt(wait_queue, ptr, new_time)
  /\ at' = "idle"
  /\ UNCHANGED <<free_list, new_time, ptr, jiffy, left, immediate, exhausted>>

\* The place is found: node ptr now counts from the new one.
InsertNode ==
  /\ at = "adding" /\ ~Behind
  /\ wait_queue' =
       IF ptr > Len(wait_queue) THEN Append(wait_queue, new_time)
       ELSE InsertAt([wait_queue EXCEPT ![ptr].sec = @ - new_time.sec], ptr, new_time)
  /\ at' = "idle"
  /\ UNCHANGED <<free_list, new_time, ptr, jiffy, left, immediate, exhausted>>
-----------------------------------------------------------------------------
(* The clock interrupt: update_jiffy() *)

SecondOver == (jiffy + 1) % HZ = 0

\* A tick inside a second.
Tick ==
  /\ ~exhausted /\ at = "idle" /\ ~SecondOver
  /\ jiffy' = (jiffy + 1) % HZ
  /\ UNCHANGED <<wait_queue, free_list, new_time, at, ptr, left, immediate, exhausted>>

\* Mutant: no node is nearer.
TickSecondKeeps ==
  /\ ~exhausted /\ at = "idle" /\ SecondOver
  /\ jiffy' = (jiffy + 1) % HZ
  /\ left' = [p \in Pids |-> IF left[p] > 0 THEN left[p] - 1 ELSE 0]
  /\ IF wait_queue = <<>> THEN UNCHANGED at ELSE at' = "firing"
  /\ UNCHANGED <<wait_queue, free_list, new_time, ptr, immediate, exhausted>>

\* Mutant: every node is one second nearer.
TickSecondAll ==
  /\ ~exhausted /\ at = "idle" /\ SecondOver
  /\ jiffy' = (jiffy + 1) % HZ
  /\ left' = [p \in Pids |-> IF left[p] > 0 THEN left[p] - 1 ELSE 0]
  /\ IF wait_queue = <<>>
     THEN UNCHANGED <<wait_queue, at>>
     ELSE /\ wait_queue' = [i \in 1..Len(wait_queue) |-> [wait_queue[i] EXCEPT !.sec = @ - 1]]
          /\ at' = "firing"
  /\ UNCHANGED <<free_list, new_time, ptr, immediate, exhausted>>

\* A second is over: the first node is one second nearer, and so are all.
TickSecond ==
  /\ ~exhausted /\ at = "idle" /\ SecondOver
  /\ jiffy' = (jiffy + 1) % HZ
  /\ left' = [p \in Pids |-> IF left[p] > 0 THEN left[p] - 1 ELSE 0]
  /\ IF wait_queue = <<>>
     THEN UNCHANGED <<wait_queue, at>>
     ELSE wait_queue' = [wait_queue EXCEPT ![1].sec = @ - 1] /\ at' = "firing"
  /\ UNCHANGED <<free_list, new_time, ptr, immediate, exhausted>>

FirstDue == wait_queue # <<>> /\ Head(wait_queue).sec = 0

\* Mutant: the node is not put back.
FireLeaks ==
  /\ at = "firing" /\ FirstDue
  /\ wait_queue' = Tail(wait_queue)
  /\ UNCHANGED <<free_list, new_time, at, ptr, jiffy, left, immediate, exhausted>>

\* The first node is due: its process is answered.
Fire ==
  /\ at = "firing" /\ FirstDue
  /\ wait_queue' = Tail(wait_queue)
  /\ free_list' = free_list + 1
  /\ UNCHANGED <<new_time, at, ptr, jiffy, left, immediate, exhausted>>

FireDone ==
  /\ at = "firing" /\ ~FirstDue
  /\ at' = "idle"
  /\ UNCHANGED <<wait_queue, free_list, new_time, ptr, jiffy, left, immediate, exhausted>>
-----------------------------------------------------------------------------
TInit ==
  /\ wait_queue = <<>> /\ free_list = NODES
  /\ new_time \in [pid : Pids, sec : {0}]
  /\ at = "idle" /\ ptr = 1 /\ jiffy = 0
  /\ left = [p \in Pids |-> 0]
  /\ immediate = 0 /\ exhausted = FALSE

TNext ==
  \/ \E p \in Pids, sec \in Secs : AddTimeEvent(p, sec)
  \/ PassNode \/ InsertNode
  \/ Tick \/ TickSecond \/ Fire \/ FireDone

TSpec == TInit /\ [][TNext]_tvars

\* The clock ticks, and the loops run to their end.
FairTSpec == TSpec /\ WF_tvars(TickSecond \/ Tick \/ PassNode \/ InsertNode \/ Fire \/ FireDone)
-----------------------------------------------------------------------------
(* Properties. *)

(* The queue holds nodes with a process and a number of seconds, the clock
   counts modulo HZ, and the number of free nodes never goes below zero. *)
TTypeOK ==
  /\ wait_queue \in Seq(Nodes) /\ new_time \in Nodes
  /\ free_list \in Nat /\ ptr \in Nat \ {0} /\ jiffy \in 0..(HZ - 1)
  /\ at \in {"idle", "adding", "firing"}
  /\ left \in [Pids -> Nat] /\ immediate \in Nat /\ exhausted \in BOOLEAN

\* When the process of node i is due, in seconds from now; the head is now.
Deadline(i) == IF i = 0 THEN 0 ELSE left[wait_queue[i].pid]

(* Whatever was inserted where and whatever has expired, each node holds the
   exact difference between its process's deadline and that of the one before
   it: inserting corrects the node behind, the clock only touches the first. *)
DeltasAreExact ==
  \A i \in 1..Len(wait_queue) :
    /\ wait_queue[i].sec = Deadline(i) - Deadline(i - 1)
    /\ wait_queue[i].sec >= 0

(* Nobody oversleeps and nobody is woken early: outside the two loops, the
   processes in the queue are exactly the ones whose time is not over yet. *)
AwakeWhenDue ==
  at = "idle" => \A p \in Pids : Queued(p) <=> left[p] > 0

(* time_event_proc() answers a process in the second in which it is due, not
   before. *)
AnsweredOnTime ==
  [][\A p \in Pids : Queued(p) /\ ~Queued(p)' => left[p] = 0]_tvars

(* The nodes suffice for one sleeper per process, except that each request with
   sec <= 0 loses one: add_time_event() uses the list head as a node only after
   more than NODES minus the number of processes of them. *)
NodesRunOutByLeaking ==
  exhausted => immediate + Cardinality(Pids) > NODES

(* A process that sleeps is woken, whoever asks to sleep after it. *)
SleepersWake == \A p \in Pids : left[p] > 0 ~> (left[p] = 0 /\ ~Queued(p)) \/ exhausted
=============================================================================
