--------------------------- MODULE ExceptionStates ---------------------------
(***************************************************************************)
(* The exception bookkeeping of ExceptionsOps (logic/exceptions_ops.h):    *)
(* for each exception a pending and an active flag and a priority, plus    *)
(* the counter pending_exceptions that lets CheckExceptions return early.  *)
(* The operations are functions from one record of flags to the next, so   *)
(* that a handler that performs several of them composes them in the order *)
(* of the code.                                                            *)
(***************************************************************************)
EXTENDS Integers, FiniteSets

CONSTANTS
  Exc,      \* the exception numbers in use, a part of 1..CountExceptions()
  Prio      \* SetPriority: the priority of each, smaller is more urgent

\* ExceptionType (exception_type.h), the ones this code raises.
HardFault  == 3
BusFault   == 5
UsageFault == 6
SVCall     == 11
SysTick    == 15

ASSUME ExcAssumption ==
  /\ Exc \subseteq 1 .. 48
  /\ {HardFault, BusFault, UsageFault, SVCall, SysTick} \subseteq Exc

ASSUME PrioAssumption == Prio \in [Exc -> -3 .. 255]

\* InitDefaultExceptionStates: the fixed priorities, everything else at 0.
DefaultPrio ==
  [e \in Exc |-> CASE e = 1 -> -3 [] e = 2 -> -2 [] e = 3 -> -1 [] OTHER -> 0]

NoException == 0

InitExceptionStates == [pending |-> {}, count |-> 0, active |-> {}]

\* Mutant: the counter grows although the exception is pending already.
SetPendingTwice(x, e) ==
  [pending |-> x.pending \cup {e}, count |-> x.count + 1, active |-> x.active]

SetPending(x, e) ==
  [pending |-> x.pending \cup {e},
   count   |-> IF e \in x.pending THEN x.count ELSE x.count + 1,
   active  |-> x.active]

\* Mutant: taking one exception drops the others.
ClearPendingAll(x, e) == [pending |-> {}, count |-> 0, active |-> x.active]

ClearPending(x, e) ==
  [pending |-> x.pending \ {e}, count |-> x.count - 1, active |-> x.active]

SetActive(x, e) ==
  [pending |-> x.pending, count |-> x.count, active |-> x.active \cup {e}]

ClearActive(x, e) ==
  [pending |-> x.pending, count |-> x.count, active |-> x.active \ {e}]

(***************************************************************************)
(* CheckExceptions.  Thread mode runs one below the lowest priority.  The  *)
(* scan keeps the most urgent candidate and, as its test is ">", replaces  *)
(* it by a later one of the same priority.  (Module ExceptionScan has the  *)
(* loop itself.)                                                           *)
(***************************************************************************)
ExecutingPriority(ipsr) == IF ipsr = NoException THEN 256 ELSE Prio[ipsr]

\* Mutant: an exception preempts code of its own priority.
CandidatesOrEqual(x, ipsr) ==
  {e \in x.pending \ x.active : Prio[e] <= ExecutingPriority(ipsr)}

Candidates(x, ipsr) ==
  {e \in x.pending \ x.active : Prio[e] < ExecutingPriority(ipsr)}

Selected(x, ipsr, e) ==
  /\ e \in Candidates(x, ipsr)
  /\ \A f \in Candidates(x, ipsr) :
       Prio[e] < Prio[f] \/ (Prio[e] = Prio[f] /\ f <= e)

\* Mutant: bus faults are left to the check after the next fetch.
CanExecuteLate(instant, e) ==
  CASE instant = "PreFetch"  -> e \in {2, 11, 14, 15} \/ e >= 16
    [] instant = "PostFetch" -> e \in {4, 5, 6}
    [] instant = "PostExec"  -> e \in {3, 4, 6, 12}

\* Mutant: usage faults are only taken after an execution.
CanExecuteNoInvState(instant, e) ==
  CASE instant = "PreFetch"  -> e \in {2, 11, 14, 15} \/ e >= 16
    [] instant = "PostFetch" -> e \in {4, 5}
    [] instant = "PostExec"  -> e \in {3, 4, 5, 6, 12}

\* CanExceptionExecute, one overload per instant of the step.
CanExecute(instant, e) ==
  CASE instant = "PreFetch"  -> e \in {2, 11, 14, 15} \/ e >= 16
    [] instant = "PostFetch" -> e \in {4, 5, 6}
    [] instant = "PostExec"  -> e \in {3, 4, 5, 6, 12}

\* Mutant: the early return is off by one.
TakesOffByOne(x, ipsr, instant, e) ==
  /\ x.count > 1
  /\ Selected(x, ipsr, e)
  /\ CanExecute(instant, e)

\* CheckExceptions at this instant takes e.
Takes(x, ipsr, instant, e) ==
  /\ x.count # 0
  /\ Selected(x, ipsr, e)
  /\ CanExecute(instant, e)
=============================================================================
