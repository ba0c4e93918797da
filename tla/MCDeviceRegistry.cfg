SPECIFICATION Spec
CONSTANTS
  Positions = {left, right}
  DefaultPos = left
  ClientHandles = {0, 1}
  EnterHandleBegin = 10
  MaxTriggers = 2
  MaxRequests = 3
  MaxCaptureEvents = 1
  Addrs = {a}
  Fingerprints = {f}
  None = None
  Keys = {}
  ReleaseBind = {}
  Coalesce = FALSE
  MaxBackendEvents = 0
  MaxUnacked = 0
INVARIANTS
  TypeOK
  OneActivePerPosition
  IncomingAgree
  CaughtUpAgrees
CHECK_DEADLOCK FALSE
