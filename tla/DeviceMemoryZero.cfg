SPECIFICATION Spec
CONSTANTS
  Gpus = {gpu}
  Npus = {npu}
  Managed = {gpu}
  MinAlign = 2
  Align = 2
  SlabSize = 8
  DirectDivisor = 1
  NpuTotal = 9
  AddrEnd = 20
  Sizes = {0, 1}
  MaxLive = 4
  ResetWithOthers = FALSE
INVARIANTS Registered
