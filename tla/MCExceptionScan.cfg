SPECIFICATION ScanSpec
CONSTANTS
  Exc <- MCExc
  Prio <- MCPrio
  CountExceptions = 16
INVARIANTS ScanTypeOK BestOfPassed ScanFindsSelected
CHECK_DEADLOCK FALSE
