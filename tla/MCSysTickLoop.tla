---------------------------- MODULE MCSysTickLoop ----------------------------
(* A small instance of SysTickLoop for TLC. *)
EXTENDS SysTickLoop

MCExc == {HardFault, BusFault, UsageFault, SVCall, SysTick}

MCLimits == {-1, 0, 1, 3}
=============================================================================
