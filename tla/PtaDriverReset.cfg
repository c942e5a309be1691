SPECIFICATION Spec
CONSTANTS
  IndexMod = 4
  RingSize = 2
  Addrs = {a1}
  NoAddr = NoAddr
  MaxFaults = 0
  MaxResets = 1
  MaxCalls = 1
  QueuePolls = 2
  QuiescePolls = 1
  MaySeizeUp = FALSE
INVARIANTS AllSlotsEnd
