SPECIFICATION FairSpec
CONSTANTS
  Device = {d1}
  NULL = NULL
  RequestRange <- MCRange
  Options <- MCDefault
  MAX_SWEEP_RANGES = 10
  BLOCKS_PER_TRANSFER = 2
  MAX_REQUESTS = 1
  MAX_BYTES = 2
  MAX_SWEEPS = 1
  Env = {}
PROPERTY NoDataMeansOneSecond
