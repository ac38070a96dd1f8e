SPECIFICATION FairISpec
CONSTANTS
  Clients = {c1}
  Intr = Intr
  NSectors = 3
  SectorSize = 1
  NR_SEC_CACHE = 2
  MaxLen = 2
  MaxBox = 2
  Bytes = {0, 1}
INVARIANTS ReadsSeeWrites CleanSlotsAgree NoLeakingInterrupt
PROPERTIES WritebackCleans RequestsComplete
