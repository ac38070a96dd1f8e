------------------------------ MODULE Services ------------------------------
(***************************************************************************)
(* The programs that run on module Kernel: the driver threads and the      *)
(* servers, the kernel threads and user processes that call them, and the  *)
(* interrupt handlers.                                                     *)
(*                                                                         *)
(* Every service is asked the same way: the client sends a request and     *)
(* receives from the server (dev_rw in hal.c, the syscall_ functions in    *)
(* sys_call_intr.c); the server loops on receive(ANY) and answers with     *)
(* send().  A thread's program is the sequence of such operations it has   *)
(* still to perform; Program gives the one a request starts.  Two drivers  *)
(* answer later: ttyd keeps a read until a line has been typed, the timer  *)
(* thread keeps a sleeper until its interrupt handler finds it due (which  *)
(* of them are due is left open here).                                     *)
(*                                                                         *)
(* The operations of the process manager, and the specification of the     *)
(* whole, are in System.                                                   *)
(***************************************************************************)
EXTENDS Kernel

CONSTANTS TIMER, TTY, RAM, FILE, MEMORY, PCB_MANAGER,   \* the servers
          create_shell,            \* the kernel thread that starts the shell
          Gettys,                  \* kernel threads looping on a terminal
          UserCalls,               \* the system calls processes make
          Irqs,                    \* interrupts that send to ttyd: key, update
          Faulty,                  \* PCBs whose user programs may raise an exception
          FAULT_PID,               \* the 11 of irq_handle()
          RSTK_SZ,                 \* read requests a console can hold
          MaxLines                 \* bound: typed lines nobody has read yet

Servers == {TIMER, TTY, RAM, FILE, MEMORY, PCB_MANAGER}

\* A console has one reader: the file server for tty1, a getty for each other.
Consoles == {FILE} \cup Gettys

None == Idle      \* no thread: no argument, no job

M(type, arg) == [type |-> type, arg |-> arg]

MsgTypes == {"io", "closed", "readline", "puts", "fd_table", "sleep", "read", "write",
             "fork", "exec", "exit", "wait", "create", "load", "copy", "unmap",
             "key", "update", "reply"}

ASSUME ServicesAssumption ==
  /\ Distinct(<<TIMER, TTY, RAM, FILE, MEMORY, PCB_MANAGER>>) /\ Servers \subseteq Threads
  /\ Servers \cap Gettys = {} /\ Gettys \subseteq Threads
  /\ create_shell \in Threads \ (Servers \cup Gettys)
  /\ \A t \in Servers \cup Gettys \cup {create_shell} : On(Boot, t)
  /\ IsrSources = {Intr, TIMER}
  /\ Body = [type : MsgTypes, arg : Threads \cup {None}]
  /\ UserCalls \subseteq
       {"io", "closed", "readline", "puts", "sleep", "fork", "exec", "exit", "wait"}
  /\ Irqs \subseteq {"key", "update"}
  /\ Faulty \subseteq Threads /\ FAULT_PID \in Nat
  /\ RSTK_SZ \in Nat \ {0} /\ MaxLines \in Nat

VARIABLES
  todo,      \* per thread: the operations its code performs next
  job,       \* per server: the source of the request it serves
  arg,       \* per server: the argument of that request
  rstk,      \* ttyd, per console: the callers of the reads it keeps, a stack
  lines,     \* ttyd, per console: complete lines in the cooked buffer
  sleepers,  \* timer: the pids in its wait_queue
  ignored,   \* history: who asked lseek() or dup() for a descriptor not open
  pending    \* the messages the current interrupt handler has still to send

drivers == <<rstk, lines, sleepers, pending>>
progs   == <<todo, job, arg, ignored, drivers>>
-----------------------------------------------------------------------------
(* Programs. *)

\* Mutant: the client goes on without waiting for the answer.
CallNoWait(server, type, a) == << <<"send", server, M(type, a)>> >>

Call(server, type, a) ==
  << <<"send", server, M(type, a)>>, <<"receive", server>> >>

Reply == << <<"reply">> >>

\* ttyd: a write is answered, the rest are operations of their own below.
TtyProgram(type) == IF type = "write" THEN Reply ELSE << <<type>> >>

\* file_thread: files are in the RAM disk, standard input and output a terminal.
\* One RAM disk access stands for all of a request; lseek() and dup() of a
\* descriptor that is not open return without an answer.
FileProgram(type) ==
  CASE type = "io"       -> Call(RAM, "io", None) \o Reply
    [] type = "closed"   -> << <<"ignore">> >>
    [] type = "readline" -> Call(TTY, "read", None) \o Reply
    [] type = "puts"     -> Call(TTY, "write", None) \o Reply
    [] type = "fd_table" -> Reply

\* memory_manager_thread: loading a program reads it through the file server.
MemoryProgram(type) ==
  IF type = "load" THEN Call(FILE, "io", None) \o Reply ELSE Reply

\* create_process, fork, exec, exit and handle_waitpid.
ManagerProgram(type) ==
  CASE type = "create" -> << <<"take">> >> \o Call(MEMORY, "load", None)
                          \o Call(FILE, "fd_table", None)
                          \o << <<"place">>, <<"wakeup_new">> >> \o Reply
    [] type = "fork"   -> << <<"take">> >> \o Call(MEMORY, "copy", None)
                          \o << <<"place">> >> \o Call(FILE, "fd_table", None)
                          \o << <<"reply_child">> >>
    [] type = "exec"   -> Call(MEMORY, "load", None) \o << <<"restart">> >>
    [] type = "exit"   -> Call(MEMORY, "unmap", None)
                          \o Call(FILE, "io", None) \o << <<"release">> >>
    [] type = "wait"   -> << <<"waitpid">> >>

\* What a server does for a message it has received.
Program(server, type) ==
  CASE server = RAM         -> Reply
    [] server = TIMER       -> << <<"add_time_event">> >>
    [] server = TTY         -> TtyProgram(type)
    [] server = FILE        -> FileProgram(type)
    [] server = MEMORY      -> MemoryProgram(type)
    [] server = PCB_MANAGER -> ManagerProgram(type)

\* open, read, write, create, close, delete, lseek, dup and the calls on
\* directories: one request to the file server each.
FileSyscall(call) == Call(FILE, call, None)

\* Mutant: syscall_exit() and syscall_sleep() do not receive().
SyscallNoWait(call, a) ==
  CASE call = "sleep" -> << <<"send", TIMER, M(call, None)>> >>
    [] call = "exit"  -> << <<"send", PCB_MANAGER, M(call, a)>> >>
    [] call = "fork"  -> Call(PCB_MANAGER, call, None) \o << <<"wakeup">> >>
    [] call \in {"io", "closed", "readline", "puts"} -> FileSyscall(call)
    [] OTHER -> Call(PCB_MANAGER, call, a)

\* What a system call asks of whom; syscall_fork then wakes the child up.
Syscall(call, a) ==
  CASE call \in {"io", "closed", "readline", "puts"} -> FileSyscall(call)
    [] call = "sleep" -> Call(TIMER, call, None)
    [] call = "fork"  -> Call(PCB_MANAGER, call, None) \o << <<"wakeup">> >>
    [] OTHER          -> Call(PCB_MANAGER, call, a)

\* One turn of getty: dev_read of its terminal, dev_write of what was read.
GettyTurn(nread) ==
  Call(TTY, "read", None) \o (IF nread = 0 THEN <<>> ELSE Call(TTY, "write", None))

\* create_shell(): write the programs, start the shell, return to wrap().
CreateShell ==
  Call(FILE, "io", None) \o Call(PCB_MANAGER, "create", None) \o << <<"finish">> >>

Advance == todo' = [todo EXCEPT ![current] = Tail(@)]

Doing(op) == InThread /\ todo[current] # <<>> /\ Head(todo[current])[1] = op

JobDone(server) == job' = [job EXCEPT ![server] = None] /\ arg' = [arg EXCEPT ![server] = None]
-----------------------------------------------------------------------------
(* Steps of any thread. *)

\* A user process traps into the kernel with a system call, or a kernel
\* thread starts.
Start ==
  /\ Enter
  /\ CASE current \in user ->
            \E call \in UserCalls :
              \E a \in IF call = "wait" THEN Threads ELSE {None} :
                todo' = [todo EXCEPT ![current] = Syscall(call, a)]
       [] current = create_shell /\ current \notin user ->
            todo' = [todo EXCEPT ![current] = CreateShell]
       [] current = FILE ->          \* the bitmaps, the root directory
            todo' = [todo EXCEPT ![current] = Call(RAM, "io", None)]
       [] OTHER -> UNCHANGED todo
  /\ UNCHANGED <<job, arg, ignored, drivers>>

\* init_proc() numbers the PCBs in the order in which they will be taken.
Pid(t) == IndexOf(Boot \o Pool, t) - 1

\* irq_handle() of an exception in user mode: exit for the process, or panic.
Fault ==
  /\ current \in Faulty \cap user
  /\ IF Pid(current) > FAULT_PID
     THEN Enter /\ todo' = [todo EXCEPT ![current] = Syscall("exit", None)]
     ELSE Running /\ pc[current] = "enabled" /\ Halt /\ UNCHANGED todo
  /\ UNCHANGED <<job, arg, ignored, drivers>>

DoSend ==
  /\ Doing("send")
  /\ Send(current, Head(todo[current])[2], Head(todo[current])[3])
  /\ Advance
  /\ UNCHANGED <<job, arg, ignored, drivers>>

DoReceive ==
  /\ Doing("receive")
  /\ ReceiveFirst(Head(todo[current])[2])
  /\ Advance
  /\ UNCHANGED <<job, arg, ignored, drivers>>

DoReply ==
  /\ Doing("reply")
  /\ Send(current, job[current], M("reply", None))
  /\ Advance
  /\ JobDone(current)
  /\ UNCHANGED <<ignored, drivers>>

\* fm_lseek(), fm_dup(): "if (fd_table[fd] == NULL) return;".
Ignore ==
  /\ Doing("ignore")
  /\ ignored' = ignored \cup {job[current]}
  /\ Advance
  /\ JobDone(current)
  /\ UNCHANGED <<vars, drivers>>

\* A server at the top of its loop: receive(ANY, &m).
Loop ==
  /\ InThread /\ current \in Servers /\ todo[current] = <<>>
  /\ ReceiveFirst(ANY)
  /\ UNCHANGED progs

GettyLoop ==
  /\ InThread /\ current \in Gettys /\ todo[current] = <<>>
  /\ \E nread \in {0, 1} : todo' = [todo EXCEPT ![current] = GettyTurn(nread)]
  /\ UNCHANGED <<vars, job, arg, ignored, drivers>>

Return ==
  /\ SyscallReturn /\ todo[current] = <<>>
  /\ UNCHANGED progs

Claim == ReceiveSecond /\ UNCHANGED progs

\* The message is in hand: a server starts to serve it, syscall_fork learns
\* the pid of the child.
Take ==
  /\ ReceiveTake
  /\ LET m == queue[current][Found(queue[current], from[current])]
     IN CASE from[current] = ANY ->
               /\ todo' = [todo EXCEPT ![current] = Program(current, m.body.type)]
               /\ job' = [job EXCEPT ![current] = m.src]
               /\ arg' = [arg EXCEPT ![current] = m.body.arg]
          [] todo[current] = << <<"wakeup">> >> ->
               /\ todo' = [todo EXCEPT ![current] = << <<"wakeup", m.body.arg>> >>]
               /\ UNCHANGED <<job, arg>>
          [] OTHER -> UNCHANGED <<todo, job, arg>>
  /\ UNCHANGED <<ignored, drivers>>
-----------------------------------------------------------------------------
(* The terminal and the timer. *)

\* read_request(): answer with a line of that console, or keep the request.
ReadRequest ==
  /\ Doing("read")
  /\ LET c == job[TTY]
     IN IF lines[c] > 0
        THEN /\ Send(TTY, c, M("reply", None))
             /\ lines' = [lines EXCEPT ![c] = @ - 1]
             /\ UNCHANGED rstk
        ELSE /\ UNCHANGED lines
             /\ IF Len(rstk[c]) = RSTK_SZ     \* too many read request
                THEN Halt /\ UNCHANGED rstk
                ELSE rstk' = [rstk EXCEPT ![c] = Append(@, c)] /\ UNCHANGED vars
  /\ Advance /\ JobDone(TTY)
  /\ UNCHANGED <<sleepers, pending, ignored>>

\* readkey() of a key that does not end a line; update_banner().
Key ==
  /\ Doing("key") \/ Doing("update")
  /\ Advance /\ JobDone(TTY)
  /\ UNCHANGED <<vars, ignored, drivers>>

\* Mutant: a line is put away even when somebody waits for it.
KeyEnterKeeps(c) ==
  /\ Doing("key") /\ lines[c] < MaxLines
  /\ lines' = [lines EXCEPT ![c] = @ + 1]
  /\ Advance /\ JobDone(TTY)
  /\ UNCHANGED <<vars, rstk, sleepers, pending, ignored>>

\* readkey() of Enter: cook() adds the line to the current console, whichever
\* it is, and answers the newest request kept there.
KeyEnter(c) ==
  /\ Doing("key") /\ lines[c] < MaxLines
  /\ IF rstk[c] # <<>>
     THEN /\ Send(TTY, Last(rstk[c]), M("reply", None))
          /\ rstk' = [rstk EXCEPT ![c] = Front(@)]
          /\ UNCHANGED lines
     ELSE /\ lines' = [lines EXCEPT ![c] = @ + 1]
          /\ UNCHANGED <<vars, rstk>>
  /\ Advance /\ JobDone(TTY)
  /\ UNCHANGED <<sleepers, pending, ignored>>

\* add_time_event(): sec <= 0 is answered at once.
AddTimeEvent ==
  /\ Doing("add_time_event")
  /\ Advance
  /\ \/ sleepers' = sleepers \cup {job[TIMER]} /\ UNCHANGED vars
     \/ Send(TIMER, job[TIMER], M("reply", None)) /\ UNCHANGED sleepers
  /\ JobDone(TIMER)
  /\ UNCHANGED <<rstk, lines, pending, ignored>>
-----------------------------------------------------------------------------
(* Interrupts. *)

\* The handful of instructions a new kernel thread executes before its first
\* lock() is taken to be too short for an interrupt to fall into.
IrqArrives == IrqBegin /\ (current = Idle \/ current \in user)

\* irq 1: send_keymsg()
IrqKey ==
  /\ "key" \in Irqs /\ IrqArrives
  /\ pending' = {<<Intr, TTY, M("key", None)>>}
  /\ UNCHANGED <<todo, job, arg, ignored, rstk, lines, sleepers>>

\* irq 0: send_updatemsg() every few ticks, time_event_proc() for who is due.
IrqTimer(due) ==
  /\ IrqArrives
  /\ due \subseteq sleepers
  /\ sleepers' = sleepers \ due
  /\ \E upd \in SUBSET (Irqs \cap {"update"}) :
       pending' = {<<Intr, TTY, M(u, None)>> : u \in upd} \cup {<<TIMER, t, M("reply", None)>> : t \in due}
  /\ UNCHANGED <<todo, job, arg, ignored, rstk, lines>>

IrqSend ==
  /\ isr
  /\ \E m \in pending :
       /\ Send(m[1], m[2], m[3])
       /\ pending' = pending \ {m}
  /\ UNCHANGED <<todo, job, arg, ignored, rstk, lines, sleepers>>

IrqReturn ==
  /\ pending = {} /\ IrqEnd
  /\ UNCHANGED progs
=============================================================================
