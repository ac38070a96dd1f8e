------------------------------- MODULE Kernel -------------------------------
(***************************************************************************)
(* The core every other part of the kernel stands on: the PCB lists and    *)
(* the scheduler (process/sleep.c, schedule.c, util.c), the semaphores     *)
(* (semaphore.c), the message boxes built from them (message.c) and the    *)
(* interrupt entry and exit around them (irq/irq_handle.c).                *)
(*                                                                         *)
(* One CPU.  lock() executes cli, and unlock() executes sti only when it   *)
(* reads the interrupt flag as already set, which after a cli it never is: *)
(* a thread that has called lock() once runs with interrupts disabled      *)
(* until it sleeps, and is resumed with them disabled.  So a step below is *)
(* a stretch of kernel code that nothing can interleave, and an interrupt  *)
(* arrives only in the idle loop, in user mode, or in a new kernel thread  *)
(* that has not called lock() yet (pc = "enabled").                        *)
(*                                                                         *)
(* What a thread does between the primitives is left open here: any thread *)
(* may send to any thread and receive from any source.  Services closes    *)
(* the system with the programs of the servers and of their clients.       *)
(***************************************************************************)
EXTENDS Lists

CONSTANTS Threads,   \* the PCBs of pcb_pool
          Idle,      \* the boot context: head of the ready ring, in no pool
          Intr,      \* MSG_HARD_INTR (-2), the source of interrupt messages
          ANY,       \* the wildcard (-1) of receive
          IsrSources,\* how interrupt handlers sign: -2, the timer's also TIMER
          Body,      \* what a message carries besides its source
          MSG_NUM,   \* message nodes of a PCB
          Boot,      \* the kernel threads init_proc creates, in order
          Pool       \* the PCBs that are still free after init_proc, in order

Sources == Threads \cup {Intr}
Sems    == Sources \cup {ANY}      \* pid_sem[] and any_sem of one PCB
Msgs    == [src : Sources, body : Body]

ASSUME KernelAssumption ==
  /\ Idle \notin Threads /\ Intr \notin Threads /\ ANY \notin Sources
  /\ Idle # Intr /\ Idle # ANY
  /\ IsrSources \subseteq Sources
  /\ MSG_NUM \in Nat \ {0}
  /\ Boot \in Seq(Threads) /\ Pool \in Seq(Threads)
  /\ Distinct(Boot) /\ Distinct(Pool)
  /\ \A t \in Threads : On(Boot, t) <=> ~On(Pool, t)

VARIABLES
  ring,      \* idle.list: the idle context, then the ready threads
  wait,      \* wait_head: its order is never looked at
  free,      \* free_pcb
  held,      \* PCBs taken from free_pcb and not yet in wait_head
  current,   \* whose code the CPU runs; after schedule() pre_current is the same
  isr,       \* an external interrupt is being handled on current's stack
  user,      \* PCBs with is_kernel = false
  pc,        \* per thread: where it is, see Points
  from,      \* per thread: the src argument of its receive()
  token,     \* per thread and semaphore of it: Sem.token
  block,     \* per thread and semaphore of it: Sem.block
  queue,     \* per thread: msg_queue; the other nodes are in free_queue
  halted     \* an assertion failed, or a list head was used as a message

lists == <<ring, wait, free, held, current>>
boxes == <<token, block, queue>>
vars  == <<lists, isr, user, pc, from, boxes, halted>>

(* "enabled": runs, or will start to run, with interrupts enabled.
   "run": in kernel code, between primitives.
   "second", "take": inside receive(), the first (both) of its P() entered. *)
Points == {"enabled", "run", "second", "take"}
-----------------------------------------------------------------------------
(* The scheduler. *)

\* Mutant: the idle context is not passed over.
ScheduleHead(l, pre_current) == NextOf(l, pre_current)

\* schedule(): the successor of pre_current, passing over the head once.
Schedule(l, pre_current) ==
  IF NextOf(l, pre_current) = Idle THEN NextOf(l, Idle) ELSE NextOf(l, pre_current)

\* Mutant: no list_del before list_add_before.
WakeupKeepsWait(st, p) ==
  IF p \in st.wait THEN [st EXCEPT !.ring = AddBefore(@, current, p)] ELSE st

\* wakeup(p): nothing happens to a p that is not in wait_head.
WakeupIn(st, p) ==
  IF p \in st.wait
  THEN [ring |-> AddBefore(st.ring, current, p), wait |-> st.wait \ {p}]
  ELSE st

WakeupAll(st) == /\ ring' = st.ring
                 /\ wait' = st.wait
                 /\ UNCHANGED <<free, held, current>>

\* sleep(): current leaves the ring and gives up the CPU.
Sleep == /\ ring' = Without(ring, current)
         /\ wait' = wait \cup {current}
         /\ current' = Schedule(ring', PrevOf(ring, current))
         /\ UNCHANGED <<free, held>>

\* The tail of irq_handle(): schedule() with pre_current = current.
Reschedule == /\ current' = Schedule(ring, current)
              /\ UNCHANGED <<ring, wait, free, held>>
-----------------------------------------------------------------------------
(* Contexts in which kernel code runs. *)

Running == ~halted /\ ~isr /\ current # Idle

InThread == Running /\ pc[current] = "run"

InKernel == InThread \/ (~halted /\ isr)

\* The interrupt flag of the context the CPU is in.
InterruptsOn == ~isr /\ (current # Idle => pc[current] = "enabled")

\* A trap from user mode, or the first lock() of a new kernel thread.
Enter ==
  /\ Running /\ pc[current] = "enabled"
  /\ pc' = [pc EXCEPT ![current] = "run"]
  /\ UNCHANGED <<lists, isr, user, from, boxes, halted>>

\* A system call ends: irq_handle() reschedules, iret restores the flag.
SyscallReturn ==
  /\ InThread /\ current \in user
  /\ pc' = [pc EXCEPT ![current] = "enabled"]
  /\ Reschedule
  /\ UNCHANGED <<isr, user, from, boxes, halted>>

IrqBegin ==
  /\ ~halted /\ InterruptsOn
  /\ isr' = TRUE
  /\ UNCHANGED <<lists, user, pc, from, boxes, halted>>

IrqEnd ==
  /\ ~halted /\ isr
  /\ isr' = FALSE
  /\ Reschedule
  /\ UNCHANGED <<user, pc, from, boxes, halted>>
-----------------------------------------------------------------------------
(* Semaphores and messages. *)

\* Mutant: the token is tested after it was incremented.
VWakesLate(st, t, s) ==
  IF token[t][s] + 1 < 0 THEN WakeupIn(st, Head(block[t][s])) ELSE st

\* The wakeup half of V(&t->s): the head of the blocking queue, if token <= 0.
VWakes(st, t, s) ==
  IF token[t][s] < 0 THEN WakeupIn(st, Head(block[t][s])) ELSE st

VAsserts(t, s) == token[t][s] < 0 => block[t][s] # <<>>

\* Mutant: the thread woken stays in the blocking queue.
VBlockKeeps(t, s) == block[t][s]

VBlock(t, s) == IF token[t][s] < 0 THEN Tail(block[t][s]) ELSE block[t][s]

FreeSlots(t) == MSG_NUM - Len(queue[t])

Halt == halted' = TRUE /\ UNCHANGED <<lists, isr, user, pc, from, boxes>>

\* send(): the node is taken without asking whether free_queue is empty; then
\* V(any_sem) and V(pid_sem[src]).
Send(src, dest, body) ==
  /\ InKernel
  /\ IF FreeSlots(dest) = 0 \/ ~VAsserts(dest, ANY) \/ ~VAsserts(dest, src)
     THEN Halt
     ELSE /\ queue' = [queue EXCEPT ![dest] = Append(@, [src |-> src, body |-> body])]
          /\ token' = [token EXCEPT ![dest][ANY] = @ + 1, ![dest][src] = @ + 1]
          /\ block' = [block EXCEPT ![dest][ANY] = VBlock(dest, ANY),
                                    ![dest][src] = VBlock(dest, src)]
          /\ WakeupAll(VWakes(VWakes([ring |-> ring, wait |-> wait], dest, ANY), dest, src))
          /\ UNCHANGED <<isr, user, pc, from, halted>>

\* Mutant: P() lets a thread pass at zero.
PAtZero(s, next) ==
  /\ token' = [token EXCEPT ![current][s] = @ - 1]
  /\ pc' = [pc EXCEPT ![current] = next]
  /\ IF token[current][s] >= 0
     THEN UNCHANGED <<lists, block>>
     ELSE /\ block' = [block EXCEPT ![current][s] = Append(@, current)]
          /\ Sleep
  /\ UNCHANGED <<isr, user, queue, halted>>

\* P(&current->s), after which the thread stands at point next.
P(s, next) ==
  /\ token' = [token EXCEPT ![current][s] = @ - 1]
  /\ pc' = [pc EXCEPT ![current] = next]
  /\ IF token[current][s] > 0
     THEN UNCHANGED <<lists, block>>
     ELSE /\ block' = [block EXCEPT ![current][s] = Append(@, current)]
          /\ Sleep
  /\ UNCHANGED <<isr, user, queue, halted>>

\* receive(src): any_sem first for ANY, pid_sem[src] first otherwise.
ReceiveFirst(src) ==
  /\ InThread
  /\ from' = [from EXCEPT ![current] = src]
  /\ P(src, "second")

\* Mutant: the second P() is on any_sem for every src.
ReceiveSecondAny ==
  /\ Running /\ pc[current] = "second"
  /\ P(ANY, "take")
  /\ UNCHANGED from

\* ... then the other one: pid_sem of the message at the head, or any_sem.
ReceiveSecond ==
  /\ Running /\ pc[current] = "second"
  /\ IF from[current] = ANY /\ queue[current] = <<>>
     THEN Halt
     ELSE /\ P(IF from[current] = ANY THEN Head(queue[current]).src ELSE ANY, "take")
          /\ UNCHANGED from

\* Mutant: the head of the queue, whoever sent it.
FoundHead(q, src) == 1

\* The node that receive() takes: the head, or the first one from src; the
\* search ends on the last node when there is none.
Found(q, src) ==
  IF src = ANY \/ q = <<>> THEN 1
  ELSE CHOOSE i \in 1..Len(q) :
         /\ q[i].src = src \/ (i = Len(q) /\ \A j \in 1..Len(q) : q[j].src # src)
         /\ \A j \in 1..(i - 1) : q[j].src # src

ReceiveTake ==
  /\ Running /\ pc[current] = "take"
  /\ IF queue[current] = <<>>
     THEN Halt
     ELSE /\ queue' = [queue EXCEPT ![current] = RemoveAt(@, Found(@, from[current]))]
          /\ pc' = [pc EXCEPT ![current] = "run"]
          /\ from' = [from EXCEPT ![current] = ANY]
          /\ UNCHANGED <<lists, isr, user, token, block, halted>>
-----------------------------------------------------------------------------
(* The life of a PCB. *)

\* init_msg(t)
InitMsg(t) ==
  /\ token' = [token EXCEPT ![t] = [s \in Sems |-> 0]]
  /\ block' = [block EXCEPT ![t] = [s \in Sems |-> <<>>]]
  /\ queue' = [queue EXCEPT ![t] = <<>>]

\* fork() and create_process() take the first free PCB out of its list.
TakePcb ==
  /\ InThread /\ free # <<>>
  /\ held' = held \cup {Head(free)}
  /\ free' = Tail(free)
  /\ UNCHANGED <<ring, wait, current, isr, user, pc, from, boxes, halted>>

\* ... and, when its memory is ready, put it to sleep with an empty box.
PlacePcb(t) ==
  /\ InThread /\ t \in held
  /\ held' = held \ {t}
  /\ wait' = wait \cup {t}
  /\ user' = user \cup {t}
  /\ pc' = [pc EXCEPT ![t] = "enabled"]
  /\ InitMsg(t)
  /\ UNCHANGED <<ring, free, current, isr, from, halted>>

\* wakeup() of a thread that has not run yet (create_process, syscall_fork).
WakeupNew(t) ==
  /\ InThread /\ pc[t] = "enabled"
  /\ WakeupAll(WakeupIn([ring |-> ring, wait |-> wait], t))
  /\ UNCHANGED <<isr, user, pc, from, boxes, halted>>

\* exec() restarts the process that asked for it, asleep in receive(current).
ExecReset(t) ==
  /\ InThread /\ t \in wait /\ pc[t] = "second" /\ from[t] = current
  /\ InitMsg(t)
  /\ pc' = [pc EXCEPT ![t] = "enabled"]
  /\ user' = user \cup {t}
  /\ WakeupAll(WakeupIn([ring |-> ring, wait |-> wait], t))
  /\ UNCHANGED <<isr, from, halted>>

\* exit() frees the PCB of the process that asked for it, asleep likewise.
ReleasePcb(t) ==
  /\ InThread /\ t \in wait /\ pc[t] = "second" /\ from[t] = current
  /\ wait' = wait \ {t}
  /\ free' = Append(free, t)
  /\ UNCHANGED <<ring, held, current, isr, user, pc, from, boxes, halted>>

\* wrap(): the function of a kernel thread has returned.
Finish ==
  /\ InThread /\ current \notin user
  /\ ring' = Without(ring, current)
  /\ free' = Append(free, current)
  /\ current' = Schedule(ring', PrevOf(ring, current))
  /\ UNCHANGED <<wait, held, isr, user, pc, from, boxes, halted>>
-----------------------------------------------------------------------------
\* The state init_proc() leaves: every thread it created was woken in turn.
Init ==
  /\ ring = <<Idle>> \o Boot
  /\ wait = {} /\ held = {} /\ user = {}
  /\ free = Pool
  /\ current = Idle
  /\ isr = FALSE /\ halted = FALSE
  /\ pc = [t \in Threads |-> "enabled"]
  /\ from = [t \in Threads |-> ANY]
  /\ token = [t \in Threads |-> [s \in Sems |-> 0]]
  /\ block = [t \in Threads |-> [s \in Sems |-> <<>>]]
  /\ queue = [t \in Threads |-> <<>>]

\* A thread signs a message with its pid; an interrupt with -2, or with the
\* pid of the driver it acts for (the timer's wakeup messages).
SendAny == \E dest \in Threads, body \in Body :
             IF isr THEN \E src \in IsrSources : Send(src, dest, body)
                    ELSE Send(current, dest, body)

Next ==
  \/ Enter \/ SyscallReturn \/ IrqBegin \/ IrqEnd
  \/ SendAny
  \/ \E src \in Sems : ReceiveFirst(src)
  \/ ReceiveSecond \/ ReceiveTake
  \/ TakePcb \/ Finish
  \/ \E t \in Threads : PlacePcb(t) \/ WakeupNew(t) \/ ExecReset(t) \/ ReleasePcb(t)

Spec == Init /\ [][Next]_vars
-----------------------------------------------------------------------------
(* Properties. *)

(* The lists hold PCBs, each thread is at a point of its code, and every box has
   one token and one blocking queue per semaphore and messages with a source. *)
TypeOK ==
  /\ ring \in Seq(Threads \cup {Idle}) /\ wait \in SUBSET Threads
  /\ free \in Seq(Threads) /\ held \in SUBSET Threads
  /\ current \in Threads \cup {Idle}
  /\ isr \in BOOLEAN /\ halted \in BOOLEAN /\ user \in SUBSET Threads
  /\ pc \in [Threads -> Points] /\ from \in [Threads -> Sems]
  /\ token \in [Threads -> [Sems -> Int]]
  /\ block \in [Threads -> [Sems -> Seq(Threads)]]
  /\ queue \in [Threads -> Seq(Msgs)]

InRing(t) == On(ring, t)
InFree(t) == On(free, t)

(* The list_del/list_add_before pairs of sleep(), wakeup(), fork(), exit() and
   wrap() never put a PCB on two lists or lose it: each is in exactly one of
   the ring, wait_head, free_pcb and the hands of the process manager, and is
   there once; the running context is in the ring and the idle context heads
   it. *)
PcbInOneList ==
  /\ Len(ring) > 0 /\ ring[1] = Idle /\ InRing(current)
  /\ Distinct(ring) /\ Distinct(free)
  /\ \A t \in Threads :
       /\ InRing(t) => t \notin wait /\ ~InFree(t) /\ t \notin held
       /\ t \in wait => ~InFree(t) /\ t \notin held
       /\ InFree(t) => t \notin held
       /\ InRing(t) \/ t \in wait \/ InFree(t) \/ t \in held

\* Messages a P() on the semaphore may still count on.
Arrived(t, s) == IF s = ANY THEN Len(queue[t]) ELSE Count(queue[t], s)

\* t has entered P() on its semaphore s for a message it has not taken yet.
Owes(t, s) ==
  \/ pc[t] \in {"second", "take"} /\ s = from[t]
  \/ /\ pc[t] = "take"
     /\ IF from[t] = ANY THEN queue[t] # <<>> /\ s = Head(queue[t]).src ELSE s = ANY

(* The two semaphores per message never drift from the queue: any_sem counts
   the messages, pid_sem[s] the ones from s, less the one that a receive() in
   progress has already claimed. *)
TokensCountMessages ==
  \A t \in Threads, s \in Sems :
    token[t][s] = Arrived(t, s) - (IF Owes(t, s) THEN 1 ELSE 0)

(* The assertion of V(), !list_empty(&s->block) when token <= 0, cannot fail,
   and nobody is left behind in a blocking queue: a negative token and a
   blocked owner go together. *)
BlockedIffNegative ==
  \A t \in Threads, s \in Sems :
    block[t][s] = IF token[t][s] < 0 THEN <<t>> ELSE <<>>

(* No wakeup is lost: a thread asleep in receive() has no message it asked
   for, and a thread that can run is in no blocking queue. *)
NoLostWakeup ==
  \A t \in Threads :
    /\ t \in wait /\ pc[t] # "enabled" =>
         pc[t] = "second" /\ Arrived(t, from[t]) = 0
    /\ InRing(t) => \A s \in Sems : block[t][s] = <<>>

(* Once receive() is past its first P() the rest cannot block, and the
   assertion msg != NULL holds: the second semaphore has a token and the
   wanted message is in the queue. *)
ReceiveCompletes ==
  \A t \in Threads : InRing(t) =>
    /\ pc[t] = "second" =>
         /\ queue[t] # <<>>
         /\ token[t][IF from[t] = ANY THEN Head(queue[t]).src ELSE ANY] > 0
    /\ pc[t] = "take" =>
         /\ queue[t] # <<>>
         /\ from[t] # ANY => queue[t][Found(queue[t], from[t])].src = from[t]

(* schedule() gives the CPU to the idle context only when no thread is ready. *)
IdleOnlyWhenNothingReady ==
  [][current' = Idle /\ current # Idle => Len(ring') = 1]_vars

(* send() and receive() implement the boxes of module Mailbox: every message is
   received at most once, in the order of sending among those that match. *)
Box == INSTANCE Mailbox WITH
         Nobody <- Idle,
         box <- queue,
         asking <- [t \in Threads |->
                      IF pc[t] \in {"second", "take"} THEN from[t] ELSE Idle]

ImplementsMailbox == Box!MSpec
=============================================================================
