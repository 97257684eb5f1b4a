CONSTANTS
  Threads = {main, t1}
  Main = main
  Items = {a, b}
  NoThread = NoThread
  NoItem = NoItem
  MaxLen = 4
  nMaxMessages = 2
  MaxPushes = 1
SPECIFICATION FairSpec
PROPERTY EveryPushHandled
