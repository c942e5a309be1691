SPECIFICATION Spec
CONSTANTS
  Gpus = {gpu}
  Npus = {npu}
  Managed = {}
  MinAlign = 2
  Align = 2
  SlabSize = 8
  DirectDivisor = 1
  NpuTotal = 9
  AddrEnd = 0
  Sizes = {1, 4, 7}
  MaxLive = 4
  ResetWithOthers = TRUE
INVARIANTS SharesNoLine
