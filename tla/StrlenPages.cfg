SPECIFICATION FairMSpec
CONSTANTS
  PAGE_SIZE = 8
  NR_PTE = 2
  NR_PDE = 5
  Pcbs = {1, 2}
  NR_PAGES = 14
  KERNEL_DIRS = 1
  NR_STACK = 1
  Programs <- MCPrograms
  ArgAddrs <- MCArgAddrs
  ARG_BUF = 3
  Boot <- MCBoot
  WriteAddrs <- MCWriteAddrs
  MaxRequests = 4
INVARIANT StrlenExact
CHECK_DEADLOCK FALSE
