SPECIFICATION FairSpec
CONSTANTS
  RingSize = 2
  MaxSeeds = 1
  MaxTeardowns = 2
  Scripts <- MCScripts
INVARIANTS IInv ResultsMatchStatus EndsAsDue IndexOrder NeverAhead NothingLandsOnEnded ConfigWhenDrained
PROPERTIES OnlyWedgedTimesOut EveryCommandEnds
