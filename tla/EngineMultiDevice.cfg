SPECIFICATION Spec
CONSTANTS
  Device = {d1, d2}
  Client = {c1}
  NULL = NULL
  TRANSFER_COUNT = 1
  Env = {}
INVARIANT MultipleDevicesHandled
