SPECIFICATION Spec
CONSTANTS
  Exc <- MCExc
  Prio <- TestingPrio
  Vector <- AllThumb
  Instrs <- Tame
  BlockedFaults = FALSE
  StkAlign = 1
  LastOff = 1
  MaxIT = 1
  MaxPush = 1
  AddrMod = 96
  StackTop = 48
INVARIANTS TypeOK PendingCountExact ActiveIsChain PrioritiesNest ReturnsIntoContext AsyncServed FaultsPrecise NoPanic OnlyFetchedExecutes
PROPERTIES RestoresContext NoLostPending
