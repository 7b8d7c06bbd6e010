SPECIFICATION ProgramSpec
CONSTANTS
  Width = 6
  Half = 32
  Memory <- JumpMemory
  Starts <- MCStarts
  Loaded <- MCLoaded
  MaxSteps = 3
INVARIANT PcExcluded
CHECK_DEADLOCK FALSE
