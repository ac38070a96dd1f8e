SPECIFICATION FairDriverSpec
CONSTANTS
  TIMER = TIMER
  TTY = TTY
  RAM = RAM
  FILE = FILE
  MEMORY = MEMORY
  PCB_MANAGER = PCB_MANAGER
  create_shell = create_shell
  p1 = p1
  getty1 = getty1
  Gettys = {getty1}
  Threads = {TIMER, TTY, getty1, RAM, FILE, MEMORY, PCB_MANAGER, create_shell, p1}
  Idle = Idle
  Intr = Intr
  ANY = ANY
  IsrSources = {Intr, TIMER}
  Body <- MCBody
  MSG_NUM = 3
  Faulty = {}
  FAULT_PID = 8
  RSTK_SZ = 1
  MaxLines = 1
  Irqs = {"key", "update"}
  UserCalls = {"readline", "sleep", "fork"}
  Boot <- DriverBoot
  Pool <- MCPool
INVARIANT StopsOnlyOutOfPcbs
PROPERTY DriverRequestsAnswered
CHECK_DEADLOCK FALSE
