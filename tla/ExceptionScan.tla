---------------------------- MODULE ExceptionScan ----------------------------
(***************************************************************************)
(* The loop of CheckExceptions (logic/exceptions_ops.h): a scan over the   *)
(* exception states in the order of their numbers that skips what is not   *)
(* pending, what is active, what cannot preempt and what is less urgent    *)
(* than the best found so far.  Module Processor uses what the loop        *)
(* promises, Selected; this module is the loop.                            *)
(***************************************************************************)
EXTENDS ExceptionStates

CONSTANT CountExceptions   \* the number of exception states

ASSUME ScanAssumption == CountExceptions \in Nat /\ Exc \subseteq 1 .. CountExceptions

VARIABLES
  x,         \* the exception states, which the scan only reads
  ipsr,      \* executing_exc_type
  i,         \* the loop counter, from 1
  best,      \* preempt_exc_type, 0 for none
  bestPrio   \* preempt_exc_priority

scanVars == <<x, ipsr, i, best, bestPrio>>

\* The exception states that the processor can be in: the active exceptions
\* are nested, each more urgent than the one it interrupted, and the running
\* one is the most urgent.
ReachableStates ==
  {s \in [pending : SUBSET Exc, count : {0}, active : SUBSET Exc] :
     \A e, f \in s.active : e # f => Prio[e] # Prio[f]}

Running(s) == IF s.active = {} THEN {NoException}
              ELSE {e \in s.active : \A f \in s.active : Prio[e] <= Prio[f]}

ScanInit ==
  /\ \E s \in ReachableStates :
       /\ x = [s EXCEPT !.count = Cardinality(s.pending)]
       /\ ipsr \in Running(s)
  /\ i = 1
  /\ best = NoException
  /\ bestPrio = 256

Done == i > CountExceptions

\* Mutant: the running exception's priority is not looked at.
SkipsNotRunning(e) ==
  \/ e \notin x.pending
  \/ e \in x.active
  \/ Prio[e] > bestPrio

\* Mutant: of several equally urgent ones the first is kept.
SkipsTies(e) ==
  \/ e \notin x.pending
  \/ e \in x.active
  \/ Prio[e] >= ExecutingPriority(ipsr)
  \/ Prio[e] >= bestPrio

\* What makes the loop `continue`.
Skips(e) ==
  \/ e \notin x.pending
  \/ e \in x.active
  \/ Prio[e] >= ExecutingPriority(ipsr)
  \/ Prio[e] > bestPrio

Skip ==
  /\ ~Done
  /\ i \in Exc => Skips(i)
  /\ i' = i + 1
  /\ UNCHANGED <<x, ipsr, best, bestPrio>>

\* Mutant: the exception is named by the index of its state, from 0.
KeepIndex ==
  /\ ~Done
  /\ i \in Exc /\ ~Skips(i)
  /\ i' = i + 1
  /\ best' = i - 1
  /\ bestPrio' = Prio[i]
  /\ UNCHANGED <<x, ipsr>>

Keep ==
  /\ ~Done
  /\ i \in Exc /\ ~Skips(i)
  /\ i' = i + 1
  /\ best' = i
  /\ bestPrio' = Prio[i]
  /\ UNCHANGED <<x, ipsr>>

\* The scan ends; the next check starts another one on other states.
ScanNext == Skip \/ Keep

ScanSpec == ScanInit /\ [][ScanNext]_scanVars

------------------------------------------------------------------------------
(* Properties *)

ScanTypeOK ==
  /\ x \in [pending : SUBSET Exc, count : Nat, active : SUBSET Exc]
  /\ ipsr \in {NoException} \cup Exc
  /\ i \in 1 .. CountExceptions + 1
  /\ best \in {NoException} \cup Exc
  /\ bestPrio \in -3 .. 256

\* The candidates that the loop has passed.
Passed == {e \in Candidates(x, ipsr) : e < i}

\* The loop invariant: the best so far is the most urgent candidate passed
\* and, of several, the one with the highest number.
BestOfPassed ==
  IF best = NoException
  THEN Passed = {} /\ bestPrio = 256
  ELSE /\ best \in Passed
       /\ bestPrio = Prio[best]
       /\ \A e \in Passed :
            Prio[best] < Prio[e] \/ (Prio[best] = Prio[e] /\ e <= best)

\* One pass over the states finds what the processor model takes: Selected,
\* or nothing when no exception may preempt.
ScanFindsSelected ==
  Done => IF best = NoException THEN Candidates(x, ipsr) = {}
                                ELSE Selected(x, ipsr, best)
=============================================================================
