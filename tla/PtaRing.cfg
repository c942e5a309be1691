SPECIFICATION FairSpec
CONSTANTS
  IndexMod = 4
  RingSize = 2
  Addrs = {a1, a2}
  NoAddr = NoAddr
  MaxFaults = 1
  MaxResets = 1
  FirstIndex = 3
  MaxPuts = 3
  MaxCals = 1
  MaxUpsets = 1
INVARIANTS IInv HeadSaysEnded DoneMeansResults
PROPERTIES StatusIsFinal RunsInOrder AfterSuccess EveryCommandEnds
CHECK_DEADLOCK FALSE
