SPECIFICATION Spec
CONSTANTS
  Positions = {left, right}
  DefaultPos = left
  ClientHandles = {0, 1}
  EnterHandleBegin = 10
  MaxTriggers = 1
  MaxRequests = 1
  MaxCaptureEvents = 2
  Addrs = {a}
  Fingerprints = {f}
  None = None
  Keys = {k}
  ReleaseBind = {k}
  Coalesce = FALSE
  MaxBackendEvents = 2
  MaxUnacked = 1
CHECK_DEADLOCK FALSE
INVARIANT NoSuchCaptureNever
