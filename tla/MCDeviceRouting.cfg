SPECIFICATION SettledSpec
CONSTANTS
  Positions = {left, right}
  DefaultPos = left
  ClientHandles = {0, 1}
  EnterHandleBegin = 10
  MaxTriggers = 1
  MaxRequests = 1
  MaxCaptureEvents = 2
  Addrs = {a}
  Fingerprints = {f}
  None = None
  Keys = {k}
  ReleaseBind = {k}
  Coalesce = TRUE
  MaxBackendEvents = 1
  MaxUnacked = 1
CHECK_DEADLOCK FALSE
INVARIANTS
  OnlyClientsControlled
  InputFollowsActive
  MotionStaysWithClient
