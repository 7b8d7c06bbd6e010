SPECIFICATION Spec
CONSTANTS
  Exc <- MCExc
  Prio <- DefaultPrio
  Words = 4
  Flash <- MCFlash
  Ram1 <- MCRam1
  Ram2 <- MCRam2
  Accesses <- MCAccesses
  Registers <- OnlyCfsr
  Values <- MCValues
CHECK_DEADLOCK FALSE
INVARIANTS FaultTypeOK FaultsOwed BfarNamesFault
PROPERTIES ClearedOnlyByName LossWitnessed
