SPECIFICATION FairSpec
CONSTANTS
  Device = {d1}
  Client = {c1}
  NULL = NULL
  TRANSFER_COUNT = 2
  Env = {"ctl_error", "submit_error", "thread_error", "join_error", "events_error", "xfer_error", "callback_stop", "late_completion"}
INVARIANT StoppedMeansCancelled
PROPERTIES
  CallsReturn
  ExitRequestHonoured
