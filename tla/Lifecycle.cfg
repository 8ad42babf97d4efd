CONSTANTS
  t1 = t1
  t2 = t2
  Threads <- TwoThreads
  NoThread = NoThread
  Configs = {"cfg"}
  ZeroConfig = "zero"
  MaxApps = 3
SPECIFICATION FairSpec
INVARIANTS
  OneCheckPerProcess
  ChecksAreSound
PROPERTIES
  CloseEnds
