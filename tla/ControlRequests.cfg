SPECIFICATION Spec
CONSTANTS
  Api <- AllApi
  Number <- AllNumber
  Length <- AllLength
  Address <- AllAddress
  Bandwidth <- Nothing
  Rate <- Nothing
  ManualRate <- Nothing
  Frequency <- AllFrequency
  SweepBytes <- AllSweepBytes
  ImageLength <- Nothing
  FREQ_ONE_MHZ = 10
  IF_MIN = 215
  IF_MAX = 275
  LO_MIN = 10
  LO_MAX = 540
  DWORD = 64
  Env = {"error", "short", "refused", "descriptor_error"}
INVARIANTS
  BoardRanges
  BoardDecodes
  SuccessIsComplete
