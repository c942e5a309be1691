SPECIFICATION FairSpec
CONSTANTS
  IndexMod = 2
  RingSize = 1
  Addrs = {a1}
  NoAddr = NoAddr
  MaxFaults = 1
  MaxResets = 1
  MaxCalls = 2
  QueuePolls = 2
  QuiescePolls = 2
  MaySeizeUp = TRUE
INVARIANTS TypeOK
PROPERTIES KeepsPromise EndsOnce CallReturns
