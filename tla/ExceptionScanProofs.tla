------------------------- MODULE ExceptionScanProofs -------------------------
(***************************************************************************)
(* The loop of CheckExceptions finds what the processor model assumes of   *)
(* it, for every table of priorities and every set of exceptions: type     *)
(* correctness, the loop invariant and what follows at the end.            *)
(***************************************************************************)
EXTENDS ExceptionScan, ExceptionStatesProofs

ScanInv == ScanTypeOK /\ BestOfPassed

\* The arithmetic facts about the constants that the proofs use.
LEMMA PrioType ==
  /\ CountExceptions \in Nat
  /\ \A e \in Exc : /\ e \in Nat /\ 1 <= e /\ e <= CountExceptions
                   /\ Prio[e] \in Int /\ -3 <= Prio[e] /\ Prio[e] <= 255
  /\ \A n \in {NoException} \cup Exc :
       ExecutingPriority(n) \in Int /\ ExecutingPriority(n) <= 256
<1>1. \A e \in Exc : Prio[e] \in -3 .. 255
  BY PrioAssumption
<1>2. \A e \in Exc : e \in 1 .. CountExceptions
  BY ScanAssumption
<1>3. \A e \in Exc : /\ e \in Nat /\ 1 <= e /\ e <= CountExceptions
                    /\ Prio[e] \in Int /\ -3 <= Prio[e] /\ Prio[e] <= 255
  BY <1>1, <1>2, ScanAssumption
<1>4. \A n \in {NoException} \cup Exc :
        ExecutingPriority(n) \in Int /\ ExecutingPriority(n) <= 256
  BY <1>3 DEF ExecutingPriority
<1> QED
  BY <1>3, <1>4, ScanAssumption

\* The same about the loop's variables, and what a candidate is.
LEMMA ScanTypes ==
  ASSUME ScanTypeOK
  PROVE  /\ i \in Nat /\ 1 <= i /\ i <= CountExceptions + 1
         /\ bestPrio \in Int
         /\ \A e \in Candidates(x, ipsr) : e \in Exc
BY PrioType DEF ScanTypeOK, Candidates

LEMMA InitScanInv == ScanInit => ScanInv
<1> SUFFICES ASSUME ScanInit PROVE ScanInv
  OBVIOUS
<1>1. PICK s \in ReachableStates :
        /\ x = [s EXCEPT !.count = Cardinality(s.pending)]
        /\ ipsr \in Running(s)
  BY DEF ScanInit
<1>2. /\ s.pending \in SUBSET Exc
      /\ s.active \in SUBSET Exc
      /\ Cardinality(s.pending) \in Nat
  BY SubsetsFinite DEF ReachableStates
<1>3. ipsr \in {NoException} \cup Exc
  BY <1>1, <1>2 DEF Running
<1>4. x \in [pending : SUBSET Exc, count : Nat, active : SUBSET Exc]
  BY <1>1, <1>2 DEF ReachableStates
<1>5. ScanTypeOK
  BY <1>3, <1>4, ScanAssumption DEF ScanTypeOK, ScanInit
<1>6. Passed = {}
  BY <1>4, PrioType DEF Passed, Candidates, ScanInit
<1> QED
  BY <1>5, <1>6 DEF ScanInv, BestOfPassed, ScanInit

LEMMA NextScanInv == ScanInv /\ [ScanNext]_scanVars => ScanInv'
<1> SUFFICES ASSUME ScanInv, [ScanNext]_scanVars PROVE ScanInv'
  OBVIOUS
<1> USE DEF ScanInv, NoException
<1>0. ScanTypeOK
  OBVIOUS
<1>1. CASE Skip
  <2>1. ScanTypeOK'
    BY <1>1, PrioType DEF Skip, Done, ScanTypeOK
  <2>2. Candidates(x, ipsr)' = Candidates(x, ipsr)
    BY <1>1 DEF Skip, Candidates, ExecutingPriority
  <2>3. \A e \in Candidates(x, ipsr) : e \in Exc
    BY <1>0, ScanTypes
  <2>4. i \in Candidates(x, ipsr) => best # 0 /\ Prio[i] > Prio[best]
    <3> SUFFICES ASSUME i \in Candidates(x, ipsr)
                 PROVE  best # 0 /\ Prio[i] > Prio[best]
      OBVIOUS
    <3>1. i \in Exc /\ Prio[i] > bestPrio
      BY <1>0, <1>1, <2>3, PrioType DEF Skip, Skips, Candidates, ScanTypeOK
    <3> QED
      BY <3>1, PrioType DEF BestOfPassed
  <2>5. \A e \in Candidates(x, ipsr) : e < i' <=> e < i \/ e = i
    BY <1>0, <1>1, <2>3, PrioType, ScanTypes DEF Skip
  <2>6. CASE i \in Candidates(x, ipsr)
    <3>1. Passed' = Passed \cup {i}
      BY <2>2, <2>5, <2>6 DEF Passed
    <3> QED
      BY <1>1, <2>1, <2>3, <2>4, <2>6, <3>1, PrioType DEF Skip, BestOfPassed, Passed
  <2>7. CASE i \notin Candidates(x, ipsr)
    <3>1. Passed' = Passed
      BY <2>2, <2>5, <2>7 DEF Passed
    <3> QED
      BY <1>1, <2>1, <3>1 DEF Skip, BestOfPassed
  <2> QED
    BY <2>6, <2>7
<1>2. CASE Keep
  <2>1. ScanTypeOK'
    <3>1. i \in Exc /\ i < CountExceptions + 1
      BY <1>0, <1>2, PrioType, ScanTypes DEF Keep, Done
    <3>2. i + 1 \in 1 .. CountExceptions + 1
      BY <1>0, <3>1, PrioType, ScanTypes
    <3>3. Prio[i] \in -3 .. 256
      BY <3>1, PrioAssumption
    <3> QED
      BY <1>2, <3>1, <3>2, <3>3 DEF Keep, ScanTypeOK
  <2>2. Candidates(x, ipsr)' = Candidates(x, ipsr)
    BY <1>2 DEF Keep, Candidates, ExecutingPriority
  <2>3. \A e \in Candidates(x, ipsr) : e \in Exc
    BY <1>0, ScanTypes
  <2>4. i \in Candidates(x, ipsr)
    BY <1>2, PrioType DEF Keep, Skips, Candidates, ScanTypeOK
  <2>5. \A e \in Candidates(x, ipsr) : e < i' <=> e < i \/ e = i
    BY <1>0, <1>2, <2>3, PrioType, ScanTypes DEF Keep
  <2>6. Passed' = Passed \cup {i}
    BY <2>2, <2>4, <2>5 DEF Passed
  <2>7. i # 0
    BY <1>0, ScanTypes
  <2>8. \A e \in Passed : Prio[i] <= Prio[e]
    BY <1>0, <1>2, <2>3, PrioType, ScanTypes DEF Keep, Skips, BestOfPassed, Passed
  <2>9. \A e \in Passed' : Prio[i] < Prio[e] \/ (Prio[i] = Prio[e] /\ e <= i)
    BY <1>0, <1>2, <2>3, <2>4, <2>6, <2>8, PrioType, ScanTypes DEF Passed, Keep
  <2> QED
    BY <1>2, <2>1, <2>6, <2>7, <2>9 DEF Keep, BestOfPassed
<1>3. CASE UNCHANGED scanVars
  BY <1>3 DEF scanVars, ScanTypeOK, BestOfPassed, Passed, Candidates,
              ExecutingPriority
<1> QED
  BY <1>1, <1>2, <1>3 DEF ScanNext

\* ScanTypeOK and the loop invariant BestOfPassed hold throughout the loop of
\* CheckExceptions.
THEOREM ScanInvariant == ScanSpec => [](ScanTypeOK /\ BestOfPassed)
BY InitScanInv, NextScanInv, PTL DEF ScanSpec, ScanInv

\* ScanTypeOK: best_prio and best stay within their types, and the index within its bounds.
THEOREM ScanTypeCorrect == ScanSpec => []ScanTypeOK
BY InitScanInv, NextScanInv, PTL DEF ScanSpec, ScanInv

\* When the loop ends it has found Selected, or there is no candidate: the
\* processor model may use Selected in place of the loop.
THEOREM ScanCorrect == ScanSpec => []ScanFindsSelected
<1>1. ScanInv => ScanFindsSelected
  <2> SUFFICES ASSUME ScanInv, Done
               PROVE  IF best = NoException THEN Candidates(x, ipsr) = {}
                                            ELSE Selected(x, ipsr, best)
    BY DEF ScanFindsSelected
  <2>1. \A e \in Candidates(x, ipsr) : e < i
    BY PrioType, ScanTypes DEF ScanInv, Done
  <2>2. Passed = Candidates(x, ipsr)
    BY <2>1 DEF Passed
  <2> QED
    BY <2>2 DEF ScanInv, BestOfPassed, Selected
<1> QED
  BY <1>1, InitScanInv, NextScanInv, PTL DEF ScanSpec
=============================================================================
