SPECIFICATION ProgramSpec
CONSTANTS
  Width = 6
  Half = 32
  Memory <- MCMemory
  Starts <- MCStarts
  Loaded <- MCLoaded
  MaxSteps = 3
INVARIANTS InstrTypeOK Dispatched AssertionsHold CompareDecides CarryChains
PROPERTIES SkippedKeepsState MidBlockFallsThrough NarrowKeepsFlags WriteBackSurvives CallReturns IsItBlock
CHECK_DEADLOCK FALSE
