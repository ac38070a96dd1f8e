SPECIFICATION Spec
CONSTANTS
  t1 = t1
  t2 = t2
  Threads = {t1, t2}
  Idle = Idle
  Intr = Intr
  ANY = ANY
  IsrSources = {Intr, t1}
  Body = {b1, b2}
  MSG_NUM = 2
  Boot <- MCBoot
  Pool <- MCPool
INVARIANTS PcbInOneList TokensCountMessages BlockedIffNegative NoLostWakeup ReceiveCompletes
PROPERTIES ImplementsMailbox IdleOnlyWhenNothingReady
CHECK_DEADLOCK FALSE
