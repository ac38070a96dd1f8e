------------------------------- MODULE System -------------------------------
(***************************************************************************)
(* The whole kernel as communicating threads: module Services closed with  *)
(* the operations of the process manager (manager_server/pcb_manager.c),   *)
(* from the state init_proc() leaves to user processes that fork, exec,    *)
(* wait for each other and exit.                                           *)
(***************************************************************************)
EXTENDS Services

VARIABLES
  new,          \* process manager: the PCB that create_process/fork took
  ppid,         \* per PCB
  is_used,      \* per PCB
  parent_wait   \* per PCB

procs == <<new, ppid, is_used, parent_wait>>
svars == <<vars, progs, procs>>
-----------------------------------------------------------------------------
(* The process manager. *)

\* fork() asserts that a PCB is free.
DoTake ==
  /\ Doing("take")
  /\ \/ /\ TakePcb
        /\ new' = Head(free)
        /\ Advance
     \/ /\ free = <<>>
        /\ Halt
        /\ UNCHANGED <<new, todo>>
  /\ UNCHANGED <<job, arg, ignored, drivers, ppid, is_used, parent_wait>>

\* Mutant: parent_wait of the previous owner stays.
DoPlaceStale ==
  /\ Doing("place")
  /\ PlacePcb(new)
  /\ Advance
  /\ is_used' = [is_used EXCEPT ![new] = TRUE]
  /\ ppid' = IF job[PCB_MANAGER] \in user
             THEN [ppid EXCEPT ![new] = job[PCB_MANAGER]] ELSE ppid
  /\ UNCHANGED <<job, arg, ignored, drivers, new, parent_wait>>

\* The fields of the new PCB; only fork() knows a parent.
DoPlace ==
  /\ Doing("place")
  /\ PlacePcb(new)
  /\ Advance
  /\ is_used' = [is_used EXCEPT ![new] = TRUE]
  /\ parent_wait' = [parent_wait EXCEPT ![new] = FALSE]
  /\ ppid' = IF job[PCB_MANAGER] \in user
             THEN [ppid EXCEPT ![new] = job[PCB_MANAGER]] ELSE ppid
  /\ UNCHANGED <<job, arg, ignored, drivers, new>>

DoWakeupNew ==
  /\ Doing("wakeup_new")
  /\ WakeupNew(new)
  /\ Advance
  /\ UNCHANGED <<job, arg, ignored, drivers, procs>>

DoReplyChild ==
  /\ Doing("reply_child")
  /\ Send(PCB_MANAGER, job[PCB_MANAGER], M("reply", new))
  /\ Advance /\ JobDone(PCB_MANAGER)
  /\ UNCHANGED <<ignored, drivers, procs>>

\* syscall_fork() in the parent.
DoWakeup ==
  /\ Doing("wakeup")
  /\ WakeupNew(Head(todo[current])[2])
  /\ Advance
  /\ UNCHANGED <<job, arg, ignored, drivers, procs>>

\* Mutant: a failed exec() is not answered.
DoRestartSilent ==
  /\ Doing("restart")
  /\ \/ /\ ExecReset(job[PCB_MANAGER])
        /\ todo' = [todo EXCEPT ![current] = Tail(@), ![job[PCB_MANAGER]] = <<>>]
     \/ UNCHANGED vars /\ Advance
  /\ JobDone(PCB_MANAGER)
  /\ UNCHANGED <<ignored, drivers, procs>>

\* exec(): a new image, or -1 when the program cannot be opened.
DoRestart ==
  /\ Doing("restart")
  /\ \/ /\ ExecReset(job[PCB_MANAGER])
        /\ todo' = [todo EXCEPT ![current] = Tail(@), ![job[PCB_MANAGER]] = <<>>]
     \/ /\ Send(PCB_MANAGER, job[PCB_MANAGER], M("reply", None))
        /\ Advance
  /\ JobDone(PCB_MANAGER)
  /\ UNCHANGED <<ignored, drivers, procs>>

\* Mutant: the parent is told only if it has exited itself.
DoReleaseSilent ==
  /\ Doing("release")
  /\ LET p == job[PCB_MANAGER]
     IN /\ ReleasePcb(p)
        /\ is_used' = [is_used EXCEPT ![p] = FALSE]
        /\ todo' = [todo EXCEPT ![p] = <<>>,
                                ![current] = IF parent_wait[p] /\ ~is_used[ppid[p]]
                                             THEN << <<"notify", ppid[p]>> >> ELSE <<>>]
  /\ JobDone(PCB_MANAGER)
  /\ UNCHANGED <<ignored, drivers, new, ppid, parent_wait>>

\* exit(): free the PCB, then tell a parent that waits.
DoRelease ==
  /\ Doing("release")
  /\ LET p == job[PCB_MANAGER]
     IN /\ ReleasePcb(p)
        /\ is_used' = [is_used EXCEPT ![p] = FALSE]
        /\ todo' = [todo EXCEPT ![p] = <<>>,
                                ![current] = IF parent_wait[p]
                                             THEN << <<"notify", ppid[p]>> >> ELSE <<>>]
  /\ JobDone(PCB_MANAGER)
  /\ UNCHANGED <<ignored, drivers, new, ppid, parent_wait>>

DoNotify ==
  /\ Doing("notify")
  /\ Send(PCB_MANAGER, Head(todo[current])[2], M("reply", None))
  /\ Advance
  /\ UNCHANGED <<job, arg, ignored, drivers, procs>>

\* Mutant: no return after parent_wait has been set.
DoWaitpidFallsThrough ==
  /\ Doing("waitpid")
  /\ LET c == arg[PCB_MANAGER]
     IN /\ parent_wait' = [parent_wait EXCEPT ![c] = @ \/ (ppid[c] = job[PCB_MANAGER] /\ is_used[c])]
        /\ Send(PCB_MANAGER, job[PCB_MANAGER], M("reply", None))
  /\ Advance /\ JobDone(PCB_MANAGER)
  /\ UNCHANGED <<ignored, drivers, new, ppid, is_used>>

\* handle_waitpid(): no answer now if it is a live child, else -1.
DoWaitpid ==
  /\ Doing("waitpid")
  /\ LET c == arg[PCB_MANAGER]
     IN \/ /\ ppid[c] = job[PCB_MANAGER] /\ is_used[c]
           /\ parent_wait' = [parent_wait EXCEPT ![c] = TRUE]
           /\ UNCHANGED vars
        \/ /\ ~(ppid[c] = job[PCB_MANAGER] /\ is_used[c])
           /\ Send(PCB_MANAGER, job[PCB_MANAGER], M("reply", None))
           /\ UNCHANGED parent_wait
  /\ Advance /\ JobDone(PCB_MANAGER)
  /\ UNCHANGED <<ignored, drivers, new, ppid, is_used>>

\* create_shell() has returned: wrap().
DoFinish ==
  /\ Doing("finish")
  /\ Finish
  /\ Advance
  /\ is_used' = [is_used EXCEPT ![current] = FALSE]
  /\ UNCHANGED <<job, arg, ignored, drivers, new, ppid, parent_wait>>
-----------------------------------------------------------------------------
\* Static storage is zero: no PCB has been waited for, ppid is that of TIMER.
SInit ==
  /\ Init
  /\ todo = [t \in Threads |-> <<>>]
  /\ job = [t \in Servers |-> None] /\ arg = [t \in Servers |-> None]
  /\ rstk = [c \in Consoles |-> <<>>] /\ lines = [c \in Consoles |-> 0]
  /\ sleepers = {} /\ pending = {} /\ ignored = {}
  /\ new = None
  /\ ppid = [t \in Threads |-> TIMER]
  /\ is_used = [t \in Threads |-> InRing(t)]
  /\ parent_wait = [t \in Threads |-> FALSE]

ServiceStep ==
  /\ \/ Start \/ Fault \/ DoSend \/ DoReceive \/ DoReply \/ Ignore \/ Loop \/ GettyLoop \/ Return
     \/ Claim \/ Take \/ ReadRequest \/ Key \/ AddTimeEvent
     \/ \E c \in Consoles : KeyEnter(c)
     \/ IrqKey \/ IrqSend \/ IrqReturn
     \/ \E due \in SUBSET sleepers : IrqTimer(due)
  /\ UNCHANGED procs

ManagerStep ==
  \/ DoTake \/ DoPlace \/ DoWakeupNew \/ DoReplyChild \/ DoWakeup \/ DoRestart
  \/ DoRelease \/ DoNotify \/ DoWaitpid \/ DoFinish

SNext == ServiceStep \/ ManagerStep

SSpec == SInit /\ [][SNext]_svars

(* The CPU does not stop: a thread in the kernel runs on, an interrupt handler
   returns, the idle loop and user code are interrupted by the clock. *)
CpuRuns == WF_svars(SNext)

(* The outside world goes on: a clock tick that is due for a sleeper comes, and
   so does a line typed on each console. *)
WorldGoesOn ==
  /\ \A t \in Threads \ (Servers \cup Gettys) :
       SF_svars(t \in sleepers /\ IrqTimer({t}) /\ UNCHANGED procs)
  /\ SF_svars(IrqKey /\ UNCHANGED procs)
  /\ \A c \in Consoles : SF_svars(KeyEnter(c) /\ UNCHANGED procs)

FairSpec == SSpec /\ CpuRuns
FairDriverSpec == SSpec /\ CpuRuns /\ WorldGoesOn
-----------------------------------------------------------------------------
(* Properties. *)

Asleep(t, src) == t \in wait /\ pc[t] = "second" /\ from[t] = src

(* The kernel never uses a list head as a message node and none of its
   assertions fails: send() takes a node without looking whether free_queue is
   empty, read_request() panics when a console keeps RSTK_SZ reads, V() and
   receive() assert.  The one way to stop is fork() out of PCBs. *)
StopsOnlyOutOfPcbs ==
  halted => todo[PCB_MANAGER] # <<>> /\ Head(todo[PCB_MANAGER]) = <<"take">> /\ free = <<>>

(* With exceptions in every user process the kernel stops in one way more, while
   the program of the shell or of the process in create_shell's PCB runs: a
   process that irq_handle() makes exit at any moment leaves the servers, its
   parent and its children no assertion to fail. *)
StopsByFaultOrOutOfPcbs ==
  \/ StopsOnlyOutOfPcbs
  \/ current \in Faulty \cap user /\ pc[current] = "enabled" /\ ~(Pid(current) > FAULT_PID)

(* While a server works on a request, the thread that made it is asleep in
   receive() from that server.  fork() copies its stack, exec() replaces its
   image and trap frame, exit() frees its PCB on the strength of this. *)
RequesterAsleep ==
  \A s \in Servers : job[s] \in Threads => Asleep(job[s], s)

(* Nobody finds an answer it did not wait for: a message from a server that is
   not a request is in the box of a thread that is in receive() from exactly
   that server, and is the only one. *)
NoStrayAnswer ==
  \A t \in Threads : \A i \in 1..Len(queue[t]) :
    queue[t][i].body.type = "reply" =>
      /\ pc[t] \in {"second", "take"} /\ from[t] = queue[t][i].src
      /\ Count(queue[t], queue[t][i].src) = 1

(* Every request is answered as long as the CPU runs, unless fork() has run out
   of PCBs: no thread sleeps for ever in receive() from a server that has no
   outside event to wait for, and no create, fork or exec is left without an
   answer, however the requests of the others queue up in front of it and
   whatever the servers ask of each other.  A process that the file server
   ignores sleeps for ever, but holds up nobody else. *)
Answered(t, s) == Asleep(t, s) ~> (~Asleep(t, s) \/ halted \/ t \in ignored)

Processes == Threads \ (Servers \cup Gettys)

\* The process manager is at work on a request that ends with op.
Serving(t, op) ==
  job[PCB_MANAGER] = t /\ todo[PCB_MANAGER] # <<>> /\ Last(todo[PCB_MANAGER])[1] = op

RequestsAnswered ==
  /\ \A t \in Threads, s \in {RAM, FILE, MEMORY} : Answered(t, s)
  /\ \A t \in Processes :
       (\E op \in {"reply", "reply_child", "restart"} : Serving(t, op))
         ~> (~Asleep(t, PCB_MANAGER) \/ halted)

(* A parent in waitpid() is woken by the exit() of the child it waits for, also
   when the PCB of the child has been reused before the parent runs. *)
ExitWakesParent ==
  \A p, c \in Processes :
    (Asleep(p, PCB_MANAGER) /\ parent_wait[c] /\ ppid[c] = p /\ Serving(c, "release"))
      ~> (~Asleep(p, PCB_MANAGER) \/ halted)

(* With typed lines and clock ticks still to come, readers of a terminal and
   sleepers are answered too, and the file server, which waits with a reader
   for its line, comes back to its other clients. *)
DriverRequestsAnswered ==
  \A t \in Threads \ Servers :
    (\E s \in Servers : Asleep(t, s)) ~>
      ((\A s \in Servers : ~Asleep(t, s)) \/ halted \/ t \in ignored)

(* A process whose child is marked parent_wait is still asleep in waitpid()
   when the child exits: the PCB number ppid has not been given to another
   process in between. *)
WaitingParentAsleep ==
  \A c \in Threads : is_used[c] /\ parent_wait[c] => Asleep(ppid[c], PCB_MANAGER)
=============================================================================
