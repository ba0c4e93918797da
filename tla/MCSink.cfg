SPECIFICATION SinksFairSpec
CONSTANTS
  None = None
  Scenarios <- SmallScenarios
  EmHandles = {1, 2}
  EmKeys = {42, 43, 99, 464}
  EmButtons = {"left", "task"}
  EmReports = {{"Shift"}}
  PerUnit = 2
  EmMoves <- ThereAndBack
  Rolls <- LittleAndMore
  Wheels <- TinyAndFour
  MouseConfigs <- SlowNatural
  EmDisplays <- TwoDisplays
  CursorStart <- Corner
  MaxEiDevices = 2
  MaxEiServerEvents = 1
INVARIANTS
  ModifiersExplained
  CursorOnDisplay
  
PROPERTIES
  SinkKeepsPromise
  LetGoComesUp
  CallsReturn
CHECK_DEADLOCK FALSE
