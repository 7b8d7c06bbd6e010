---------------------------- MODULE MCFaultStatus ----------------------------
(* A small instance of FaultStatus for TLC. *)
EXTENDS FaultStatus

MCExc == {HardFault, BusFault, UsageFault, SVCall, SysTick}
MCFlash == {0}
MCRam1 == {2}
MCRam2 == {2, 3}
MCAccesses == {1, 2}
OnlyCfsr == {"CFSR"}
MCValues == {Flags}
=============================================================================
