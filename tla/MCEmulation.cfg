SPECIFICATION Spec
CONSTANTS
  ctrl = ctrl
  meta = meta
  esc = esc
  Keys = {ctrl, meta}
  Modifiers = {ctrl, meta}
  RemoteKeys = {ctrl}
  Configs <- ModifierConfigs
  None = None
  Addrs = {a, b}
  MaySilent = {}
  MaxIds = 2
  MaxProxyRequests = 1
  MaxProxyEvents = 2
  MaxUpdates = 1
SYMMETRY Symmetry
CHECK_DEADLOCK FALSE
INVARIANTS
  TypeOK
  HandlesAgree
  NoStuckKeys
  EmulationStatusAgrees
  ReleasedKeysUp
