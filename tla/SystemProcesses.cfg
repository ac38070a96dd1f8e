SPECIFICATION FairSpec
CONSTANTS
  TIMER = TIMER
  TTY = TTY
  RAM = RAM
  FILE = FILE
  MEMORY = MEMORY
  PCB_MANAGER = PCB_MANAGER
  create_shell = create_shell
  p1 = p1
  getty1 = getty1
  Gettys = {}
  Threads = {TIMER, TTY, RAM, FILE, MEMORY, PCB_MANAGER, create_shell, p1}
  Idle = Idle
  Intr = Intr
  ANY = ANY
  IsrSources = {Intr, TIMER}
  Body <- MCBody
  MSG_NUM = 3
  Faulty = {create_shell, p1}
  FAULT_PID = 6
  RSTK_SZ = 1
  MaxLines = 1
  Irqs = {}
  UserCalls = {"io", "closed", "fork", "exec", "exit", "wait"}
  Boot <- ProcessBoot
  Pool <- MCPool
INVARIANTS StopsByFaultOrOutOfPcbs RequesterAsleep NoStrayAnswer WaitingParentAsleep
PROPERTIES RequestsAnswered ExitWakesParent
CHECK_DEADLOCK FALSE
