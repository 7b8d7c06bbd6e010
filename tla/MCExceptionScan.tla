--------------------------- MODULE MCExceptionScan ---------------------------
(* A small instance of ExceptionScan for TLC: three levels of priority, two  *)
(* exceptions on one, three on another.                                      *)
EXTENDS ExceptionScan

MCExc == {2, HardFault, BusFault, UsageFault, SVCall, SysTick, 16}

MCPrio == [DefaultPrio EXCEPT ![SVCall] = 1, ![SysTick] = 1]
=============================================================================
