SPECIFICATION FairTSpec
CONSTANTS
  p1 = p1
  p2 = p2
  p3 = p3
  Pids = {p1, p2, p3}
  Secs <- MCSecs
  HZ = 2
  NODES = 4
INVARIANTS DeltasAreExact AwakeWhenDue NodesRunOutByLeaking
PROPERTIES AnsweredOnTime SleepersWake
CHECK_DEADLOCK FALSE
