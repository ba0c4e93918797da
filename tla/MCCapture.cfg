SPECIFICATION BackendsSpec
CONSTANTS
  None = None
  Backends = {"layer_shell", "macos", "windows", "portal"}
  Positions = {"left", "right"}
  MaxEvents = 1
  OutputNames = {1, 2}
  Geometries <- TwoPlaces
  GeometriesOf <- SecondMoves
  MaxWlEvents = 1
  MaxKeyboards = 1
  MaxNotify = 2
  Modifiers = {"shift"}
  MaxMessages = 2
  Points <- Line
  Screens <- OneOrTwo
  PerEiEvent = 2
INVARIANTS
  BarriersOnOuterEdges
  CursorHiddenIffGrabbed
  WindowsUpdatesArrive
  ReleaseHeard
PROPERTIES
  KeepsPromise
CHECK_DEADLOCK FALSE
