---------------------------- MODULE PeriodicTimer ----------------------------
(***************************************************************************)
(* What the system timer promises: while it runs, its clock counts the     *)
(* period down, starts the next one when the period is over and may ask    *)
(* for an interrupt then.  Nothing else moves the count: not the phases of *)
(* the emulator, nor how the host cuts the execution into calls.           *)
(***************************************************************************)
EXTENDS Integers

CONSTANT MaxReload

VARIABLES
  running,  \* whether the timer is enabled
  reload,   \* the reload value
  left,     \* clocks until the period is over, at least one
  irq       \* whether the interrupt is waiting

timerVars == <<running, reload, left, irq>>

\* A reload value of zero gives the shortest period, one clock.
Period(value) == IF value = 0 THEN 1 ELSE value

TimerInit == running = FALSE /\ reload = 0 /\ left = 1 /\ irq = FALSE

Clock ==
  /\ running
  /\ IF left > 1
     THEN left' = left - 1 /\ UNCHANGED irq
     ELSE left' = Period(reload) /\ (UNCHANGED irq \/ irq' = TRUE)
  /\ UNCHANGED <<running, reload>>

Start ==
  /\ ~running
  /\ running' = TRUE
  /\ left' = Period(reload)
  /\ UNCHANGED <<reload, irq>>

Stop == running' = FALSE /\ UNCHANGED <<reload, left, irq>>

SetReload == reload' \in 0 .. MaxReload /\ UNCHANGED <<running, left, irq>>

\* A write to the count ends the period at the next clock.
Clear == left' = 1 /\ UNCHANGED <<running, reload, irq>>

Serve == irq' = FALSE /\ UNCHANGED <<running, reload, left>>

TimerNext == Clock \/ Start \/ Stop \/ SetReload \/ Clear \/ Serve

TimerSpec == TimerInit /\ [][TimerNext]_timerVars
=============================================================================
