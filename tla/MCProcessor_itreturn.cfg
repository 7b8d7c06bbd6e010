SPECIFICATION FairSpec
CONSTANTS
  Exc <- MCExc
  Prio <- DefaultPrio
  Vector <- AllThumb
  Instrs <- ItFirmware
  BlockedFaults = FALSE
  StkAlign = 1
  LastOff = 1
  MaxIT = 2
  MaxPush = 1
  AddrMod = 256
  StackTop = 128
PROPERTY RestoresIT
