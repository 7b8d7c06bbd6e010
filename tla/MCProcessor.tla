----------------------------- MODULE MCProcessor -----------------------------
(* Small instances of Processor for TLC. *)
EXTENDS Processor

MCExc == {HardFault, BusFault, UsageFault, SVCall, SysTick}

\* The table that exceptions_ops.h:129-133 offers for tests: a timer less
\* urgent than the rest, so that its handler can be preempted.
TestingPrio == [DefaultPrio EXCEPT ![SysTick] = 1]

AllThumb == [e \in Exc |-> "thumb"]

Tame == {"plain", "it", "svc", "datafault", "push", "pop", "control", "bxreturn",
  "fixup", "bxarm", "fetchfault", "bkpt"}

Wild == {"plain", "branch", "svc", "datafault", "divzero", "push", "bxreturn",
  "popreturn", "exit", "errexit"}

SvcFirmware == {"plain", "svc", "bxreturn"}
FaultyFirmware == {"plain", "datafault", "bxreturn"}
ThreadStackFirmware == {"plain", "control", "push", "pop"}
ItFirmware == {"plain", "it", "datafault", "bxreturn"}
PopFirmware == {"plain", "push", "popreturn"}

\* A vector table with a missing handler and one without the Thumb bit.
BadVectors == [e \in Exc |-> IF e = BusFault THEN "unmapped"
                             ELSE IF e = SVCall THEN "arm" ELSE "thumb"]
=============================================================================
