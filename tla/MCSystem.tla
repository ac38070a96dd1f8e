------------------------------ MODULE MCSystem ------------------------------
(* The threads of a small system.  After create_shell has returned its PCB is
   the second one that processes can have. *)
EXTENDS System
CONSTANTS p1, getty1

\* init_proc() without the gettys, for the life of processes ...
ProcessBoot == <<TIMER, TTY, RAM, FILE, MEMORY, PCB_MANAGER, create_shell>>
\* ... and with one getty, for the drivers.
DriverBoot == <<TIMER, TTY, getty1, RAM, FILE, MEMORY, PCB_MANAGER, create_shell>>

MCPool == <<p1>>

MCBody == [type : MsgTypes, arg : Threads \cup {None}]
=============================================================================
