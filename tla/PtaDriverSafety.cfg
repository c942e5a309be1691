SPECIFICATION Spec
CONSTANTS
  IndexMod = 4
  RingSize = 2
  Addrs = {a1, a2}
  NoAddr = NoAddr
  MaxFaults = 1
  MaxResets = 1
  MaxCalls = 2
  QueuePolls = 2
  QuiescePolls = 1
  MaySeizeUp = FALSE
SYMMETRY Symmetry
INVARIANTS IInv NothingStranded NoneLeftPending
PROPERTIES KeepsPromise StopsWriting EndsOnce WritesOwnedMemory
