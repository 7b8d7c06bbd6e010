SPECIFICATION Spec
CONSTANTS
  Exc <- MCExc
  Prio <- DefaultPrio
  Vector <- BadVectors
  Instrs <- Wild
  BlockedFaults = TRUE
  StkAlign = 1
  LastOff = 0
  MaxIT = 0
  MaxPush = 1
  AddrMod = 128
  StackTop = 96
INVARIANTS NestingBounded PendingCountExact AsyncServed
