SPECIFICATION FairSpec
CONSTANTS
  ctrl = ctrl
  meta = meta
  esc = esc
  Keys = {esc, meta}
  Modifiers = {meta}
  RemoteKeys = {esc}
  Configs <- KeyConfigs
  None = None
  Addrs = {a}
  MaySilent = {a}
  MaxIds = 1
  MaxProxyRequests = 2
  MaxProxyEvents = 2
  MaxUpdates = 1
CHECK_DEADLOCK FALSE
INVARIANTS
  InputWatched
  ReleasedKeysUp
PROPERTIES
  SilentReleased
  TerminateEndsUnlessSwallowed
