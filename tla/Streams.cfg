SPECIFICATION FairSpec
CONSTANTS
  Threads = {t1}
  s1 = s1
  s2 = s2
  nb = nb
  Streams = {s1, s2, nb}
  NonBlocking = {nb}
  Null = Null
  Events = {e1}
  MaxCmds = 3
  MaxDestroys = 1
INVARIANTS IInv LegacyOrder WaitsUnlessOvertaken AnswersAreTrue RefsExact
PROPERTIES SyncsMeanDone CallsReturn
\* A deadlock here is a thread stuck in a call, which is what CallsReturn excludes.
CHECK_DEADLOCK FALSE
