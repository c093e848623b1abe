SPECIFICATION FairSpec
CONSTANTS
  Device = {d1, d2}
  NULL = NULL
  RequestRange <- MCRange
  Options <- MCOptions
  MAX_SWEEP_RANGES = 2
  BLOCKS_PER_TRANSFER = 2
  MAX_REQUESTS = 3
  MAX_BYTES = 2
  MAX_SWEEPS = 1
  Env = {"ctl_error", "start_error", "join_error", "stream_error", "stillborn"}
INVARIANTS
  TypeOK
  SweepIsMemorySafe
  RangesSwept
  IfftTiles
  BinsInBounds
PROPERTIES
  VerdictIsSound
  InterruptEnds
  OneShotEnds
  SilenceEnds
