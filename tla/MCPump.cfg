CONSTANTS
  Threads = {main, t1, t2}
  Main = main
  Items = {a, b}
  NoThread = NoThread
  NoItem = NoItem
  MaxLen = 4
  nMaxMessages = 2
  MaxPushes = 3
SPECIFICATION FairSpec
INVARIANTS
  PumpTypeOK
  PopSafe
  InOrder
PROPERTIES
  MissedOnlyInWindow
  PushReturns
  HandledUnlessAsleep
  NotifiedDrains
