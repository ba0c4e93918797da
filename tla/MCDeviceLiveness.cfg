SPECIFICATION FairSpec
CONSTANTS
  Positions = {left}
  DefaultPos = left
  ClientHandles = {0}
  EnterHandleBegin = 10
  MaxTriggers = 1
  MaxRequests = 1
  MaxCaptureEvents = 2
  Addrs = {a}
  Fingerprints = {f}
  None = None
  Keys = {k}
  ReleaseBind = {k}
  Coalesce = FALSE
  MaxBackendEvents = 1
  MaxUnacked = 1
CHECK_DEADLOCK FALSE
PROPERTIES
  ReleaseBindFrees
  OrphanFreed
  ShutdownCompletes
