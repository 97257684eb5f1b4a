CONSTANTS
  Threads = {t1, t2, t3}
  Items = {a, b}
  NoThread = NoThread
  NoItem = NoItem
  MaxLen = 2
SPECIFICATION QueueSpec
SYMMETRY Symmetry
INVARIANTS
  NoDataRace
  NoLockCycle
PROPERTIES
  Linearizable
\* A thread may pop from an empty deque, which is undefined; nothing follows.
CHECK_DEADLOCK FALSE
