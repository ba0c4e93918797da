SPECIFICATION FairSpec
CONSTANTS
  None = None
  Backends = {"windows", "portal"}
  Positions = {"left", "right"}
  MaxEvents = 1
  OutputNames = {1}
  Geometries <- TwoPlaces
  GeometriesOf <- OneOutput
  MaxWlEvents = 1
  MaxKeyboards = 1
  MaxNotify = 1
  Modifiers = {"shift"}
  MaxMessages = 2
  Points <- Line
  Screens <- OneDisplay
  PerEiEvent = 1
PROPERTIES
  DropEnds
  TerminateEnds
  PortalCreateTakesEffect
CHECK_DEADLOCK FALSE
