------------------------ MODULE ExceptionStatesProofs ------------------------
(* Facts about the exception states, for every set of exceptions and every  *)
(* table of priorities.                                                     *)
EXTENDS ExceptionStates, FiniteSetTheorems, TLAPS

ExcStates == [pending : SUBSET Exc, count : 0 .. 48, active : SUBSET Exc]

CountExact(s) == s.count = Cardinality(s.pending)

LEMMA SubsetsFinite ==
  ASSUME NEW S \in SUBSET Exc
  PROVE  IsFiniteSet(S) /\ Cardinality(S) \in 0 .. 48
<1>1. 1 \in Int /\ 48 \in Int
  OBVIOUS
<1>2. /\ IsFiniteSet(1 .. 48)
      /\ Cardinality(1 .. 48) = IF 1 > 48 THEN 0 ELSE 48 - 1 + 1
  BY <1>1, FS_Interval, Zenon
<1>3. S \in SUBSET (1 .. 48)
  BY ExcAssumption
<1>4. IsFiniteSet(S) /\ Cardinality(S) <= Cardinality(1 .. 48)
  BY <1>2, <1>3, FS_Subset, Zenon
<1>5. Cardinality(S) \in Nat
  BY <1>4, FS_CardinalityType, Zenon
<1> QED
  BY <1>2, <1>4, <1>5

\* A record of states is its three fields.
LEMMA ExcStatesFields ==
  ASSUME NEW P \in SUBSET Exc, NEW c \in 0 .. 48, NEW A \in SUBSET Exc
  PROVE  [pending |-> P, count |-> c, active |-> A] \in ExcStates
BY DEF ExcStates

\* Raising an exception keeps the counter exact, whether or not it is pending.
LEMMA SetPendingExact ==
  ASSUME NEW s \in ExcStates, CountExact(s), NEW e \in Exc
  PROVE  SetPending(s, e) \in ExcStates /\ CountExact(SetPending(s, e))
<1> DEFINE P == s.pending \cup {e}
           c == IF e \in s.pending THEN s.count ELSE s.count + 1
<1>1. SetPending(s, e) = [pending |-> P, count |-> c, active |-> s.active]
  BY DEF SetPending
<1>2. s.pending \in SUBSET Exc /\ s.active \in SUBSET Exc /\ s.count \in 0 .. 48
  BY DEF ExcStates
<1>3. P \in SUBSET Exc
  BY <1>2
<1>4. IsFiniteSet(s.pending)
  BY <1>2, SubsetsFinite
<1>5. Cardinality(P) = IF e \in s.pending THEN Cardinality(s.pending)
                      ELSE Cardinality(s.pending) + 1
  BY <1>4, FS_AddElement, Zenon
<1>6. c = Cardinality(P)
  BY <1>5 DEF CountExact
<1>7. c \in 0 .. 48
  BY <1>3, <1>6, SubsetsFinite
<1>8. [pending |-> P, count |-> c, active |-> s.active] \in ExcStates
  BY <1>2, <1>3, <1>7, ExcStatesFields
<1> QED
  BY <1>1, <1>6, <1>8 DEF CountExact

\* So does taking one that is pending.
LEMMA ClearPendingExact ==
  ASSUME NEW s \in ExcStates, CountExact(s), NEW e \in s.pending
  PROVE  ClearPending(s, e) \in ExcStates /\ CountExact(ClearPending(s, e))
<1> DEFINE P == s.pending \ {e}
           c == s.count - 1
<1>1. ClearPending(s, e) = [pending |-> P, count |-> c, active |-> s.active]
  BY DEF ClearPending
<1>2. s.pending \in SUBSET Exc /\ s.active \in SUBSET Exc /\ s.count \in 0 .. 48
  BY DEF ExcStates
<1>3. P \in SUBSET Exc
  BY <1>2
<1>4. IsFiniteSet(s.pending)
  BY <1>2, SubsetsFinite
<1>5. Cardinality(P) = Cardinality(s.pending) - 1
  BY <1>4, FS_RemoveElement, Zenon
<1>6. c = Cardinality(P)
  BY <1>5 DEF CountExact
<1>7. c \in 0 .. 48
  BY <1>3, <1>6, SubsetsFinite
<1>8. [pending |-> P, count |-> c, active |-> s.active] \in ExcStates
  BY <1>2, <1>3, <1>7, ExcStatesFields
<1> QED
  BY <1>1, <1>6, <1>8 DEF CountExact

LEMMA SetActiveExact ==
  ASSUME NEW s \in ExcStates, CountExact(s), NEW e \in Exc
  PROVE  SetActive(s, e) \in ExcStates /\ CountExact(SetActive(s, e))
BY DEF SetActive, ExcStates, CountExact

LEMMA ClearActiveExact ==
  ASSUME NEW s \in ExcStates, CountExact(s), NEW e
  PROVE  ClearActive(s, e) \in ExcStates /\ CountExact(ClearActive(s, e))
BY DEF ClearActive, ExcStates, CountExact

\* What a check takes is pending, not active, and more urgent than what runs.
LEMMA TakesCandidate ==
  ASSUME NEW s \in ExcStates, NEW n, NEW instant, NEW e, Takes(s, n, instant, e)
  PROVE  /\ e \in Exc
         /\ e \in s.pending
         /\ e \notin s.active
         /\ Prio[e] < ExecutingPriority(n)
BY DEF Takes, Selected, Candidates, ExcStates
=============================================================================
