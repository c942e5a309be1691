SPECIFICATION Spec
CONSTANTS
  IndexMod = 4
  RingSize = 2
  Addrs = {a1, a2}
  NoAddr = NoAddr
  MaxFaults = 0
  MaxResets = 0
  MaxCalls = 1
  QueuePolls = 2
  QuiescePolls = 1
  MaySeizeUp = TRUE
PROPERTIES WritesOwnedMemory
