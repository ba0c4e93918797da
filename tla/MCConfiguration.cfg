SPECIFICATION ConfigSpec
CONSTANTS
  None = None
  Unreadable = Unreadable
  Ctrl = Ctrl
  Alt = Alt
  Meta = Meta
  ctrl = ctrl
  control = control
  alt = alt
  meta = meta
  KeyA = KeyA
  LeftCtrl = LeftCtrl
  bogus = bogus
  FileClients = {c, d}
  FileKeys = {k}
  Names <- Strings
  Roles = {Ctrl, Alt, Meta}
  FromConfigStr <- FromString
  KeyNames = {KeyA, LeftCtrl}
  RoleKeys <- KeysOfRoles
  Remaps <- FileRemaps
  CliRemaps <- Overrides
  MaxNotices = 1
  MaxEdits = 1
  MaxRestarts = 2
INVARIANT ShownIsApplied
PROPERTY RestartKeeps
CHECK_DEADLOCK FALSE
