SPECIFICATION FairSpec
CONSTANTS
  Exc <- MCExc
  Prio <- DefaultPrio
  Vector <- AllThumb
  Instrs <- ThreadStackFirmware
  BlockedFaults = FALSE
  StkAlign = 1
  LastOff = 1
  MaxIT = 2
  MaxPush = 1
  AddrMod = 256
  StackTop = 128
INVARIANT R13Selected
