SPECIFICATION FairSpec
CONSTANTS
  Bus <- MCBus
  NULL = NULL
  GARBAGE = GARBAGE
  USB_MAX_SERIAL_LENGTH = 3
  Wanted <- MCWanted
  Hotplug = {1}
  Shared = {3}
  MAX_CALLS <- MCCalls
  Env = {"init_error", "shut", "unread", "read_error", "no_mem", "setup_error"}
INVARIANTS
  TypeOK
  ContextOutlivesDevices
  ListsAreAccountedFor
  ListNamesBoards
  FirstSuffixIsFound
  OnlyOthersTakeTheContext
PROPERTY CheckReturns
