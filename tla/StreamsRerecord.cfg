SPECIFICATION Spec
CONSTANTS
  Threads = {t1}
  s1 = s1
  s2 = s2
  nb = nb
  Streams = {s1, s2, nb}
  NonBlocking = {nb}
  Null = Null
  Events = {e1}
  MaxCmds = 3
  MaxDestroys = 0
INVARIANTS WaitsForItsRecord
