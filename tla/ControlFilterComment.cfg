SPECIFICATION Spec
CONSTANTS
  Api = {258}
  Number <- Nothing
  Length <- Nothing
  Address <- Nothing
  Bandwidth <- AllBandwidth
  Rate <- AllRate
  ManualRate <- AllManualRate
  Frequency <- Nothing
  SweepBytes <- Nothing
  ImageLength <- AllImageLength
  FREQ_ONE_MHZ = 10
  IF_MIN = 215
  IF_MAX = 275
  LO_MIN = 10
  LO_MAX = 540
  DWORD = 64
  Env = {"error"}
INVARIANT FilterSetWithRate
