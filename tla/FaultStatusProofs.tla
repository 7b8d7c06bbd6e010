--------------------------- MODULE FaultStatusProofs ---------------------------
(***************************************************************************)
(* Proofs about FaultStatus, for every layout of the address space and     *)
(* every priority table.                                                   *)
(***************************************************************************)
EXTENDS FaultStatus, ExceptionStatesProofs, ArithmeticFacts

------------------------------------------------------------------------------
(* What the accesses leave in the fault status *)

\* A sequence of reads makes BusFault pending exactly when one of them is
\* refused, and touches no other exception.
LEMMA ReadPending ==
  ASSUME NEW x, NEW kind, NEW base, NEW n
  PROVE  ReadOrRaise(x, kind, base, n).exc.pending =
           x.exc.pending \cup
             (IF RefusedReads(base, n) = {} THEN {} ELSE {BusFault})
<1>1. CASE RefusedReads(base, n) = {}
  BY <1>1 DEF ReadOrRaise
<1>2. CASE RefusedReads(base, n) # {}
  BY <1>2 DEF ReadOrRaise, RaiseRead, SetPending
<1> QED BY <1>1, <1>2

\* The same for writes.
LEMMA WritePending ==
  ASSUME NEW x, NEW kind, NEW base, NEW n
  PROVE  WriteOrRaise(x, kind, base, n).exc.pending =
           x.exc.pending \cup
             (IF RefusedWrites(base, n) = {} THEN {} ELSE {BusFault})
<1>1. CASE RefusedWrites(base, n) = {}
  BY <1>1 DEF WriteOrRaise
<1>2. CASE RefusedWrites(base, n) # {}
  BY <1>2 DEF WriteOrRaise, RaiseWrite, SetPending
<1> QED BY <1>1, <1>2

\* A refused fetch is a refused read of one word.
LEMMA FetchIsRefused ==
  ASSUME NEW a \in Adr, ~Readable(a)
  PROVE  RefusedReads(a, 1) = {0} /\ LastOf(a, {0}) = a
<1>1. WordAt(a, 0) = a
  BY BusAssumption DEF WordAt, Adr
<1>2. RefusedReads(a, 1) = {0}
  BY <1>1 DEF RefusedReads
<1>3. (CHOOSE i \in {0} : \A j \in {0} : j <= i) = 0
  OBVIOUS
<1> QED BY <1>1, <1>2, <1>3 DEF LastOf

------------------------------------------------------------------------------
(* No fault is lost *)

\* The entry of e clears its pending flag first: what the frame is refused
\* stays pending, also when e is BusFault.
LEMMA EntryPending ==
  ASSUME NEW e
  PROVE  EntryFaults(e).exc.pending =
           (fault.exc.pending \ {e}) \cup
             (IF RefusedWrites(FramePtr, FrameWords) = {} THEN {} ELSE {BusFault})
<1> DEFINE y == WithExc(fault, ClearPending(fault.exc, e))
<1> DEFINE x == WriteOrRaise(y, "UNSTKERR", FramePtr, FrameWords)
<1>1. EntryFaults(e).exc.pending = x.exc.pending
  BY DEF EntryFaults, SetActive, WithExc
<1>2. y.exc.pending = fault.exc.pending \ {e}
  BY DEF ClearPending, WithExc
<1> HIDE DEF y
<1>3. x.exc.pending = y.exc.pending \cup
        (IF RefusedWrites(FramePtr, FrameWords) = {} THEN {} ELSE {BusFault})
  BY WritePending
<1> QED BY <1>1, <1>2, <1>3

\* A fault is pending exactly when it is owed: every action that is refused
\* something raises, and only the entry of the handler serves.
THEOREM FaultsOwedCorrect == Spec => []FaultsOwed
<1> USE DEF FaultsOwed
<1>1. Init => FaultsOwed
  BY DEF Init, InitExceptionStates
<1>2. FaultsOwed /\ [Next]_vars => FaultsOwed'
  <2> SUFFICES ASSUME FaultsOwed, [Next]_vars PROVE FaultsOwed'
    OBVIOUS
  <2>1. CASE CheckEntry
    <3>1. PICK e \in TakenAt(phase) : ExceptionEntry(e)
      BY <2>1 DEF CheckEntry
    <3> DEFINE raised == IF RefusedWrites(FramePtr, FrameWords) = {}
                         THEN {} ELSE {BusFault}
    <3>2. fault'.exc.pending = (fault.exc.pending \ {e}) \cup raised
      BY <3>1, EntryPending DEF ExceptionEntry
    <3>3. history'.unserved = (history.unserved \ {e}) \cup raised
      BY <3>1 DEF ExceptionEntry, Remembers
    <3> QED BY <3>2, <3>3 DEF BusFault, UsageFault
  <2>2. CASE CheckNone
    BY <2>2 DEF CheckNone
  <2>3. CASE FetchOk
    BY <2>3 DEF FetchOk
  <2>4. CASE FetchRefused
    <3>1. PICK a \in Adr : /\ ~Readable(a)
                           /\ fault' = ReadOrRaise(fault, "IBUSERR", a, 1)
                           /\ Remembers({BusFault}, a, {})
      BY <2>4 DEF FetchRefused
    <3>2. RefusedReads(a, 1) # {}
      BY <3>1, FetchIsRefused
    <3>3. fault'.exc.pending = fault.exc.pending \cup {BusFault}
      BY <3>1, <3>2, ReadPending
    <3> QED BY <3>1, <3>3 DEF Remembers
  <2>5. CASE FetchInvalidState
    BY <2>5 DEF FetchInvalidState, RaiseUsage, SetPending, Remembers
  <2>6. CASE ExecLoad
    <3>1. PICK a \in Adr, n \in Accesses :
            /\ fault' = ReadOrRaise(fault, "PRECISERR", a, n)
            /\ history'.unserved = history.unserved \cup
                 (IF RefusedReads(a, n) = {} THEN {} ELSE {BusFault})
      BY <2>6 DEF ExecLoad, Executes, Remembers
    <3>2. fault'.exc.pending = fault.exc.pending \cup
            (IF RefusedReads(a, n) = {} THEN {} ELSE {BusFault})
      BY <3>1, ReadPending
    <3> QED BY <3>1, <3>2
  <2>7. CASE ExecStore
    <3>1. PICK a \in Adr, n \in Accesses :
            /\ fault' = WriteOrRaise(fault, "PRECISERR", a, n)
            /\ history'.unserved = history.unserved \cup
                 (IF RefusedWrites(a, n) = {} THEN {} ELSE {BusFault})
      BY <2>7 DEF ExecStore, Executes, Remembers
    <3>2. fault'.exc.pending = fault.exc.pending \cup
            (IF RefusedWrites(a, n) = {} THEN {} ELSE {BusFault})
      BY <3>1, WritePending
    <3> QED BY <3>1, <3>2
  <2>8. CASE ExecDivByZero
    BY <2>8 DEF ExecDivByZero, Executes, RaiseUsage, SetPending, Remembers
  <2>9. CASE ExecSvc \/ ExecBkpt
    BY <2>9 DEF ExecSvc, ExecBkpt, Executes, SetPending, Remembers, WithExc,
                SVCall, HardFault, BusFault, UsageFault
  <2>10. CASE ExecStoreRegister
    BY <2>10 DEF ExecStoreRegister, Executes, WriteCfsr, WriteBfar, WithCfsr
  <2>11. CASE ExecBxToArm \/ ExecMoveSP
    BY <2>11 DEF ExecBxToArm, ExecMoveSP
  <2>12. CASE ExecReturn
    <3> DEFINE x == WithExc(fault, ClearActive(fault.exc, cpu.ipsr))
    <3>1. x.exc.pending = fault.exc.pending
      BY DEF WithExc, ClearActive
    <3>2. fault' = ReadOrRaise(x, "STKERR", cpu.sp, FrameWords)
      BY <2>12 DEF ExecReturn
    <3>3. history'.unserved = history.unserved \cup
            (IF RefusedReads(cpu.sp, FrameWords) = {} THEN {} ELSE {BusFault})
      BY <2>12 DEF ExecReturn, Remembers
    <3> HIDE DEF x
    <3>4. fault'.exc.pending = x.exc.pending \cup
            (IF RefusedReads(cpu.sp, FrameWords) = {} THEN {} ELSE {BusFault})
      BY <3>2, ReadPending
    <3> QED BY <3>1, <3>3, <3>4
  <2>13. CASE UNCHANGED vars
    BY <2>13 DEF vars
  <2> QED BY <2>1, <2>2, <2>3, <2>4, <2>5, <2>6, <2>7, <2>8, <2>9, <2>10,
             <2>11, <2>12, <2>13 DEF Next
<1> QED BY <1>1, <1>2, PTL DEF Spec

------------------------------------------------------------------------------
(* The fault status registers *)

\* Accesses only add flags; reads of a frame leave BFAR and its validity alone.
LEMMA ReadStatus ==
  ASSUME NEW x, NEW kind \in AccessKinds, NEW base, NEW n
  PROVE  /\ x.cfsr \subseteq ReadOrRaise(x, kind, base, n).cfsr
         /\ RefusedReads(base, n) = {} => ReadOrRaise(x, kind, base, n) = x
         /\ kind \notin {"PRECISERR", "IBUSERR"}
              => /\ ReadOrRaise(x, kind, base, n).bfar = x.bfar
                 /\ "BFARVALID" \in ReadOrRaise(x, kind, base, n).cfsr
                      => "BFARVALID" \in x.cfsr
<1>1. CASE RefusedReads(base, n) = {}
  BY <1>1 DEF ReadOrRaise
<1>2. CASE RefusedReads(base, n) # {}
  BY <1>2 DEF ReadOrRaise, RaiseRead, AccessKinds
<1> QED BY <1>1, <1>2

\* Writes leave the address of the last refused word in BFAR.
LEMMA WriteStatus ==
  ASSUME NEW x, NEW kind, NEW base, NEW n
  PROVE  /\ x.cfsr \subseteq WriteOrRaise(x, kind, base, n).cfsr
         /\ RefusedWrites(base, n) = {} => WriteOrRaise(x, kind, base, n) = x
         /\ RefusedWrites(base, n) # {}
              => WriteOrRaise(x, kind, base, n).bfar
                   = LastOf(base, RefusedWrites(base, n))
<1>1. CASE RefusedWrites(base, n) = {}
  BY <1>1 DEF WriteOrRaise
<1>2. CASE RefusedWrites(base, n) # {}
  BY <1>2 DEF WriteOrRaise, RaiseWrite
<1> QED BY <1>1, <1>2

\* The entry of e is a write of the frame, as far as CFSR and BFAR go.
LEMMA EntryStatus ==
  ASSUME NEW e
  PROVE  /\ fault.cfsr \subseteq EntryFaults(e).cfsr
         /\ RefusedWrites(FramePtr, FrameWords) = {}
              => /\ EntryFaults(e).cfsr = fault.cfsr
                 /\ EntryFaults(e).bfar = fault.bfar
         /\ RefusedWrites(FramePtr, FrameWords) # {}
              => EntryFaults(e).bfar
                   = LastOf(FramePtr, RefusedWrites(FramePtr, FrameWords))
<1> DEFINE y == WithExc(fault, ClearPending(fault.exc, e))
<1> DEFINE x == WriteOrRaise(y, "UNSTKERR", FramePtr, FrameWords)
<1>1. EntryFaults(e).cfsr = x.cfsr /\ EntryFaults(e).bfar = x.bfar
  BY DEF EntryFaults, WithExc
<1>2. y.cfsr = fault.cfsr /\ y.bfar = fault.bfar
  BY DEF WithExc
<1> HIDE DEF y
<1>3. /\ y.cfsr \subseteq x.cfsr
      /\ RefusedWrites(FramePtr, FrameWords) = {} => x = y
      /\ RefusedWrites(FramePtr, FrameWords) # {}
           => x.bfar = LastOf(FramePtr, RefusedWrites(FramePtr, FrameWords))
  BY WriteStatus
<1> QED BY <1>1, <1>2, <1>3

\* A valid BFAR names the last refused access, as long as firmware does not
\* store to BFAR.
THEOREM BfarCorrect ==
  ASSUME "BFAR" \notin Registers
  PROVE  Spec => []BfarNamesFault
<1> USE DEF BfarNamesFault
<1>1. Init => BfarNamesFault
  BY DEF Init
<1>2. BfarNamesFault /\ [Next]_vars => BfarNamesFault'
  <2> SUFFICES ASSUME BfarNamesFault, [Next]_vars PROVE BfarNamesFault'
    OBVIOUS
  <2>1. CASE CheckEntry
    <3>1. PICK e \in TakenAt(phase) : ExceptionEntry(e)
      BY <2>1 DEF CheckEntry
    <3> DEFINE S == RefusedWrites(FramePtr, FrameWords)
    <3>2. fault' = EntryFaults(e)
      BY <3>1 DEF ExceptionEntry
    <3>3. history'.at = IF S = {} THEN history.at ELSE LastOf(FramePtr, S)
      BY <3>1 DEF ExceptionEntry, Remembers
    <3>4. CASE S = {}
      <4>1. fault'.cfsr = fault.cfsr /\ fault'.bfar = fault.bfar
        BY <3>2, <3>4, EntryStatus
      <4> QED BY <3>3, <3>4, <4>1
    <3>5. CASE S # {}
      <4>1. fault'.bfar = LastOf(FramePtr, S)
        BY <3>2, <3>5, EntryStatus
      <4> QED BY <3>3, <3>5, <4>1
    <3> QED BY <3>4, <3>5
  <2>2. CASE CheckNone
    BY <2>2 DEF CheckNone
  <2>3. CASE FetchOk
    BY <2>3 DEF FetchOk
  <2>4. CASE FetchRefused
    <3>1. PICK a \in Adr : /\ ~Readable(a)
                           /\ fault' = ReadOrRaise(fault, "IBUSERR", a, 1)
                           /\ Remembers({BusFault}, a, {})
      BY <2>4 DEF FetchRefused
    <3>2. RefusedReads(a, 1) = {0} /\ LastOf(a, {0}) = a
      BY <3>1, FetchIsRefused
    <3>3. ReadOrRaise(fault, "IBUSERR", a, 1).bfar
            = LastOf(a, RefusedReads(a, 1))
      BY <3>2 DEF ReadOrRaise, RaiseRead
    <3>4. fault'.bfar = a
      BY <3>1, <3>2, <3>3
    <3>5. history'.at = a
      BY <3>1 DEF Remembers
    <3> QED BY <3>4, <3>5
  <2>5. CASE FetchInvalidState
    BY <2>5 DEF FetchInvalidState, RaiseUsage, Remembers
  <2>6. CASE ExecLoad
    <3>1. PICK a \in Adr, n \in Accesses :
            /\ fault' = ReadOrRaise(fault, "PRECISERR", a, n)
            /\ history'.at = IF RefusedReads(a, n) = {} THEN history.at
                             ELSE LastOf(a, RefusedReads(a, n))
      BY <2>6 DEF ExecLoad, Executes, Remembers
    <3>2. /\ RefusedReads(a, n) = {}
               => ReadOrRaise(fault, "PRECISERR", a, n) = fault
          /\ RefusedReads(a, n) # {}
               => ReadOrRaise(fault, "PRECISERR", a, n).bfar
                    = LastOf(a, RefusedReads(a, n))
      BY DEF ReadOrRaise, RaiseRead
    <3> QED BY <3>1, <3>2
  <2>7. CASE ExecStore
    <3>1. PICK a \in Adr, n \in Accesses :
            /\ fault' = WriteOrRaise(fault, "PRECISERR", a, n)
            /\ history'.at = IF RefusedWrites(a, n) = {} THEN history.at
                             ELSE LastOf(a, RefusedWrites(a, n))
      BY <2>7 DEF ExecStore, Executes, Remembers
    <3>2. /\ RefusedWrites(a, n) = {}
               => WriteOrRaise(fault, "PRECISERR", a, n) = fault
          /\ RefusedWrites(a, n) # {}
               => WriteOrRaise(fault, "PRECISERR", a, n).bfar
                    = LastOf(a, RefusedWrites(a, n))
      BY WriteStatus
    <3> QED BY <3>1, <3>2
  <2>8. CASE ExecDivByZero
    BY <2>8 DEF ExecDivByZero, Executes, RaiseUsage, Remembers
  <2>9. CASE ExecSvc \/ ExecBkpt
    BY <2>9 DEF ExecSvc, ExecBkpt, Executes, Remembers, WithExc
  <2>10. CASE ExecStoreRegister
    BY <2>10, FaultStatusAssumption
       DEF ExecStoreRegister, Executes, WriteCfsr, WithCfsr
  <2>11. CASE ExecBxToArm \/ ExecMoveSP
    BY <2>11 DEF ExecBxToArm, ExecMoveSP
  <2>12. CASE ExecReturn
    <3> DEFINE x == WithExc(fault, ClearActive(fault.exc, cpu.ipsr))
    <3>1. x.cfsr = fault.cfsr /\ x.bfar = fault.bfar
      BY DEF WithExc
    <3>2. fault' = ReadOrRaise(x, "STKERR", cpu.sp, FrameWords)
      BY <2>12 DEF ExecReturn
    <3>3. history'.at = history.at
      BY <2>12 DEF ExecReturn, Remembers
    <3> HIDE DEF x
    <3>4. /\ fault'.bfar = x.bfar
          /\ "BFARVALID" \in fault'.cfsr => "BFARVALID" \in x.cfsr
      BY <3>2, ReadStatus DEF AccessKinds
    <3> QED BY <3>1, <3>3, <3>4
  <2>13. CASE UNCHANGED vars
    BY <2>13 DEF vars
  <2> QED BY <2>1, <2>2, <2>3, <2>4, <2>5, <2>6, <2>7, <2>8, <2>9, <2>10,
             <2>11, <2>12, <2>13 DEF Next
<1> QED BY <1>1, <1>2, PTL DEF Spec

\* No flag of CFSR disappears that firmware did not name.
THEOREM ClearedByName ==
  ASSUME "BFAR" \notin Registers
  PROVE  Spec => ClearedOnlyByName
<1> DEFINE Named == \A f \in fault.cfsr \ fault'.cfsr : f \in history'.ones
<1>1. [Next]_vars => [Named]_vars
  <2> SUFFICES ASSUME Next PROVE Named
    OBVIOUS
  <2>1. CASE CheckEntry
    <3>1. PICK e \in TakenAt(phase) : ExceptionEntry(e)
      BY <2>1 DEF CheckEntry
    <3>2. fault' = EntryFaults(e)
      BY <3>1 DEF ExceptionEntry
    <3> QED BY <3>2, EntryStatus
  <2>2. CASE ExecStoreRegister
    <3>1. PICK r \in Registers, part \in {"BFSR", "UFSR", "CFSR"},
               value \in Values :
            /\ Executes(IF r = "CFSR"
                          THEN WriteCfsr(fault, part, value \cap Covers(part))
                          ELSE WriteBfar(fault, value \cap Covers(part)))
            /\ history' = [unserved |-> history.unserved, at |-> history.at,
                           ones |-> value \cap Covers(part)]
      BY <2>2, Zenon DEF ExecStoreRegister
    <3>2. r = "CFSR"
      BY FaultStatusAssumption
    <3> QED BY <3>1, <3>2 DEF Executes, WriteCfsr, WithCfsr
  <2>3. CASE CheckNone \/ FetchOk \/ ExecBxToArm \/ ExecMoveSP
    BY <2>3 DEF CheckNone, FetchOk, ExecBxToArm, ExecMoveSP
  <2>4. CASE FetchRefused
    <3>1. PICK a : fault' = ReadOrRaise(fault, "IBUSERR", a, 1)
      BY <2>4 DEF FetchRefused
    <3> QED BY <3>1, ReadStatus DEF AccessKinds
  <2>5. CASE ExecLoad
    <3>1. PICK a, n : fault' = ReadOrRaise(fault, "PRECISERR", a, n)
      BY <2>5 DEF ExecLoad, Executes
    <3> QED BY <3>1, ReadStatus DEF AccessKinds
  <2>6. CASE ExecStore
    <3>1. PICK a, n : fault' = WriteOrRaise(fault, "PRECISERR", a, n)
      BY <2>6 DEF ExecStore, Executes
    <3> QED BY <3>1, WriteStatus
  <2>7. CASE FetchInvalidState \/ ExecDivByZero \/ ExecSvc \/ ExecBkpt
    BY <2>7 DEF FetchInvalidState, ExecDivByZero, ExecSvc, ExecBkpt, Executes,
                RaiseUsage, WithExc
  <2>8. CASE ExecReturn
    <3> DEFINE x == WithExc(fault, ClearActive(fault.exc, cpu.ipsr))
    <3>1. x.cfsr = fault.cfsr
      BY DEF WithExc
    <3>2. fault' = ReadOrRaise(x, "STKERR", cpu.sp, FrameWords)
      BY <2>8 DEF ExecReturn
    <3> HIDE DEF x
    <3> QED BY <3>1, <3>2, ReadStatus DEF AccessKinds
  <2> QED BY <2>1, <2>2, <2>3, <2>4, <2>5, <2>6, <2>7, <2>8 DEF Next
<1> QED BY <1>1, PTL DEF Spec, ClearedOnlyByName

------------------------------------------------------------------------------
(* The stack of frames *)

\* There is room for a frame for each level of priority.
Levels == {Prio[e] : e \in Exc}
StackHoldsNesting == FrameWords * Cardinality(Levels) <= Words

\* The contexts, from the thread to what the processor executes.
Depth == Len(frames)
Ctx(i) == IF i <= Depth THEN frames[i].cpu ELSE cpu

\* Context i is the thread or a handler, it returns by the right EXC_RETURN
\* unless its LR was lost, and its stack pointer is i - 1 frames down.
Nested(i) ==
  /\ Ctx(i).mode = IF i = 1 THEN "Thread" ELSE "Handler"
  /\ i = 1 => Ctx(i).ipsr = NoException /\ Ctx(i).lr \in {0, ThreadLR}
  /\ i > 1 => Ctx(i).ipsr \in Exc
  /\ i = 2 => Ctx(i).lr \in {0, ReturnMain}
  /\ i > 2 => Ctx(i).lr \in {0, ReturnHandler}
  /\ Ctx(i).sp = (Ctx(1).sp - FrameWords * (i - 1)) % Words

Preempts(i, j) == ExecutingPriority(Ctx(j).ipsr) < ExecutingPriority(Ctx(i).ipsr)

\* Frame i lies where the context after it has its stack pointer, as far as
\* memory took it; when it did not, BusFault was pending.
Held(i) ==
  LET c == frames[i].cpu
      word1 == Ctx(i + 1).sp
      word2 == WordAt(word1, 1)
  IN  /\ mem[word1] = IF Writable(word1) THEN c.lr ELSE 0
      /\ mem[word2] = IF Writable(word2) THEN Xpsr(c) ELSE 0
      /\ frames[i].witness \/ (Writable(word1) /\ Writable(word2))

Frame == [cpu : Context, witness : BOOLEAN]

StackTyped ==
  /\ frames \in Seq(Frame)
  /\ cpu \in Context
  /\ mem \in [Adr -> Content]
  /\ \A a \in Adr : ~Writable(a) => mem[a] = 0

StackHeld ==
  phase # "panic" =>
    /\ \A i \in 1 .. Depth + 1 : Nested(i)
    /\ \A i, j \in 1 .. Depth + 1 : i < j => Preempts(i, j)
    /\ \A i \in 1 .. Depth : Held(i)

StackInv == StackTyped /\ StackHeld

\* What is known of each context without its position.
LEMMA CtxTyped ==
  ASSUME StackTyped
  PROVE  /\ Depth \in Nat
         /\ \A i \in 1 .. Depth + 1 : Ctx(i) \in Context
         /\ \A i \in 1 .. Depth : Ctx(i) = frames[i].cpu /\ frames[i] \in Frame
         /\ Ctx(Depth + 1) = cpu
<1>1. Depth \in Nat /\ \A i \in 1 .. Depth : frames[i] \in Frame
  BY DEF StackTyped, Depth
<1>2. \A f \in Frame : f.cpu \in Context
  BY DEF Frame
<1>3. cpu \in Context
  BY DEF StackTyped
<1> QED BY <1>1, <1>2, <1>3 DEF Ctx

LEMMA XpsrDecodes ==
  ASSUME NEW c \in Context
  PROVE  /\ Xpsr(c) \in Content
         /\ Xpsr(c) % 64 = c.ipsr
         /\ Xpsr(c) \div 64 = c.thumb
<1>1. c.ipsr \in {NoException} \cup Exc /\ c.thumb \in {0, 1}
  BY DEF Context
<1>2. c.ipsr \in 0 .. 48
  <2>1. \A e \in Exc : e \in 1 .. 48
    BY ExcAssumption, Zenon
  <2> QED BY <1>1, <2>1 DEF NoException
<1>3. \A n \in 0 .. 48, t \in {0, 1} :
        n + 64 * t \in 0 .. 127 /\ (n + 64 * t) % 64 = n /\ (n + 64 * t) \div 64 = t
  <2> SUFFICES ASSUME NEW n \in 0 .. 48, NEW t \in {0, 1}
               PROVE  /\ n + 64 * t \in 0 .. 127
                      /\ (n + 64 * t) % 64 = n
                      /\ (n + 64 * t) \div 64 = t
    OBVIOUS
  <2>1. CASE t = 0
    BY <2>1
  <2>2. CASE t = 1
    BY <2>2
  <2> QED BY <2>1, <2>2
<1> QED BY <1>1, <1>2, <1>3 DEF Xpsr, Content

LEMMA SpRange ==
  ASSUME NEW a \in Int
  PROVE  a % Words \in Adr
<1>1. Words \in Int /\ Words > 0
  BY BusAssumption
<1>2. PICK q \in Int, r \in 0 .. Words - 1 : r = a % Words /\ a = Words * q + r
  BY <1>1, DivMod
<1> QED BY <1>2 DEF Adr

\* Steps that leave processor and memory alone and forget no frame.
LEMMA QuietStep ==
  ASSUME StackInv, phase # "panic",
         cpu' = cpu, mem' = mem, frames' \in Seq(Frame), Len(frames') = Len(frames),
         \A i \in 1 .. Len(frames) : /\ frames'[i].cpu = frames[i].cpu
                                     /\ frames[i].witness => frames'[i].witness
  PROVE  StackInv'
<1>1. StackTyped'
  BY DEF StackInv, StackTyped
<1>2. Depth' = Depth /\ Depth \in Nat
  BY CtxTyped DEF Depth, StackInv
<1>3. \A i \in 1 .. Depth + 1 : Ctx(i)' = Ctx(i)
  BY <1>2 DEF Ctx, Depth
<1>4. \A i \in 1 .. Depth + 1 : Nested(i) => Nested(i)'
  BY <1>2, <1>3 DEF Nested
<1>5. \A i, j \in 1 .. Depth + 1 : Preempts(i, j) => Preempts(i, j)'
  BY <1>3 DEF Preempts
<1>6. \A i \in 1 .. Depth : Held(i) => Held(i)'
  <2> SUFFICES ASSUME NEW i \in 1 .. Depth, Held(i) PROVE Held(i)'
    OBVIOUS
  <2>1. i \in 1 .. Depth + 1 /\ i + 1 \in 1 .. Depth + 1
    BY <1>2
  <2>2. Ctx(i + 1)' = Ctx(i + 1) /\ frames'[i].cpu = frames[i].cpu
    BY <1>2, <1>3, <2>1 DEF Depth
  <2>3. frames[i].witness => frames'[i].witness
    BY DEF Depth
  <2> QED BY <2>2, <2>3 DEF Held
<1> QED
  BY <1>1, <1>2, <1>4, <1>5, <1>6 DEF StackInv, StackHeld

\* Witnessed only adds to what the frames know.
LEMMA WitnessedFrames ==
  ASSUME NEW fs \in Seq(Frame)
  PROVE  /\ Witnessed(fs) \in Seq(Frame)
         /\ Len(Witnessed(fs)) = Len(fs)
         /\ \A i \in 1 .. Len(fs) :
              /\ Witnessed(fs)[i].cpu = fs[i].cpu
              /\ Witnessed(fs)[i].witness = (fs[i].witness \/ BusFault \in fault'.exc.pending)
<1> DEFINE F(i) == [fs[i] EXCEPT !.witness = @ \/ BusFault \in fault'.exc.pending]
<1>1. Len(fs) \in Nat /\ \A i \in 1 .. Len(fs) : fs[i] \in Frame
  OBVIOUS
<1>2. Witnessed(fs) = [i \in 1 .. Len(fs) |-> F(i)]
  BY DEF Witnessed
<1>3. \A i \in 1 .. Len(fs) :
        /\ F(i) \in Frame
        /\ F(i).cpu = fs[i].cpu
        /\ F(i).witness = (fs[i].witness \/ BusFault \in fault'.exc.pending)
  BY <1>1 DEF Frame
<1> HIDE DEF F
<1> QED BY <1>1, <1>2, <1>3

\* Handlers preempt only less urgent ones, so that the frames are at most as
\* many as the levels: there is room for one more when e is taken.
LEMMA EntryFits ==
  ASSUME StackInv, phase # "panic", StackHoldsNesting,
         NEW e \in Exc, Prio[e] < ExecutingPriority(cpu.ipsr)
  PROVE  FrameWords * (Depth + 1) <= Words
<1>1. /\ Depth \in Nat
      /\ Ctx(Depth + 1) = cpu
      /\ \A i \in 1 .. Depth + 1 : Nested(i)
      /\ \A i, j \in 1 .. Depth + 1 : i < j => Preempts(i, j)
  BY CtxTyped DEF StackInv, StackHeld
<1>2. IsFiniteSet(Levels) /\ Cardinality(Levels) \in Nat
  <2> DEFINE least == -3
  <2>1. least \in Int /\ Levels \in SUBSET (least .. 255)
    BY PrioAssumption DEF Levels
  <2> HIDE DEF least
  <2>2. IsFiniteSet(least .. 255)
    <3>1. \A a, b \in Int : IsFiniteSet(a .. b)
      BY FS_Interval
    <3> QED BY <2>1, <3>1
  <2> QED BY <2>1, <2>2, FS_Subset, FS_CardinalityType
<1> DEFINE Level(i) == IF i <= Depth THEN Prio[Ctx(i + 1).ipsr] ELSE Prio[e]
           f == [i \in 1 .. Depth + 1 |-> Level(i)]
<1>3. \A i \in 1 .. Depth : Ctx(i + 1).ipsr \in Exc
  BY <1>1 DEF Nested
<1>4. \A i \in 1 .. Depth + 1 : Level(i) \in Levels /\ Level(i) \in Int
  BY <1>3, PrioAssumption DEF Levels
<1>5. \A i \in 1 .. Depth : Level(i) = ExecutingPriority(Ctx(i + 1).ipsr)
  <2> SUFFICES ASSUME NEW i \in 1 .. Depth
               PROVE  Prio[Ctx(i + 1).ipsr] = ExecutingPriority(Ctx(i + 1).ipsr)
    BY <1>1
  <2>1. \A x \in Exc : x # NoException
    BY ExcAssumption DEF NoException
  <2> QED BY <1>3, <2>1 DEF ExecutingPriority
<1>6. \A i, j \in 1 .. Depth + 1 : i < j => Level(j) < Level(i)
  <2> SUFFICES ASSUME NEW i \in 1 .. Depth + 1, NEW j \in 1 .. Depth + 1, i < j
               PROVE  Level(j) < Level(i)
    OBVIOUS
  <2>1. i \in 1 .. Depth /\ Level(i) = ExecutingPriority(Ctx(i + 1).ipsr)
    BY <1>1, <1>5
  <2>2. CASE j <= Depth
    <3>1. j \in 1 .. Depth /\ i + 1 \in 1 .. Depth + 1 /\ j + 1 \in 1 .. Depth + 1 /\ i + 1 < j + 1
      BY <1>1, <2>2
    <3>2. Preempts(i + 1, j + 1)
      BY <1>1, <3>1
    <3> QED BY <1>5, <2>1, <3>1, <3>2 DEF Preempts
  <2>3. CASE j > Depth
    <3>1. j = Depth + 1 /\ Level(j) = Prio[e]
      BY <1>1, <2>3
    <3>2. CASE i = Depth
      BY <1>1, <2>1, <3>1, <3>2
    <3>3. CASE i < Depth
      <4>1. i + 1 \in 1 .. Depth + 1 /\ Depth + 1 \in 1 .. Depth + 1 /\ i + 1 < Depth + 1
        BY <1>1, <3>3
      <4>2. ExecutingPriority(cpu.ipsr) < Level(i)
        BY <1>1, <2>1, <4>1 DEF Preempts
      <4>3. ExecutingPriority(cpu.ipsr) \in Int
        <5>1. cpu.ipsr \in {NoException} \cup Exc
          BY DEF StackInv, StackTyped, Context
        <5> QED BY <5>1, PrioAssumption DEF ExecutingPriority
      <4> QED BY <1>4, <3>1, <4>2, <4>3
    <3> QED BY <1>1, <2>1, <3>2, <3>3
  <2> QED BY <1>1, <2>2, <2>3
<1> HIDE DEF Level
<1>7. f \in [1 .. Depth + 1 -> Levels]
  BY <1>4
<1>8. IsFiniteSet(1 .. Depth + 1) /\ Cardinality(1 .. Depth + 1) = Depth + 1
  BY <1>1, FS_Interval
<1>9. Depth + 1 <= Cardinality(Levels)
  <2>1. SUFFICES ASSUME Cardinality(Levels) < Depth + 1 PROVE FALSE
    BY <1>1, <1>2
  <2>2. PICK x \in 1 .. Depth + 1, y \in 1 .. Depth + 1 : x # y /\ f[x] = f[y]
    <3> HIDE DEF f
    <3> QED BY <1>2, <1>7, <1>8, <2>1, FS_PigeonHole
  <2>3. Level(x) = Level(y) /\ Level(x) \in Int /\ (x < y \/ y < x)
    BY <1>1, <1>4, <2>2
  <2> QED BY <1>6, <2>3
<1> QED
  BY <1>1, <1>2, <1>9, BusAssumption DEF StackHoldsNesting, FrameWords

\* Where the frames lie, and that the next one lies elsewhere.
LEMMA FramesApart ==
  ASSUME StackInv, phase # "panic", FrameWords * (Depth + 1) <= Words
  PROVE  /\ FramePtr = (Ctx(1).sp - FrameWords * (Depth + 1)) % Words
         /\ WordAt(FramePtr, 0) = FramePtr
         /\ FramePtr \in Adr /\ WordAt(FramePtr, 1) \in Adr
         /\ FramePtr # WordAt(FramePtr, 1)
         /\ \A i \in 1 .. Depth :
              {Ctx(i + 1).sp, WordAt(Ctx(i + 1).sp, 1)}
                \cap {FramePtr, WordAt(FramePtr, 1)} = {}
<1>1. /\ Depth \in Nat
      /\ Ctx(Depth + 1) = cpu
      /\ \A i \in 1 .. Depth + 1 : Nested(i) /\ Ctx(i) \in Context
  BY CtxTyped DEF StackInv, StackHeld
<1>2. Words \in Int /\ Words > 0
  BY BusAssumption
<1> DEFINE base == Ctx(1).sp
<1>3. base \in Int
  <2>1. Ctx(1) \in Context
    BY <1>1
  <2> QED BY <2>1, <1>2 DEF Context, Adr
<1>4. \A i \in 1 .. Depth + 1 : Ctx(i).sp = (base - FrameWords * (i - 1)) % Words
  BY <1>1 DEF Nested
<1> HIDE DEF base
<1>5. FramePtr = (base - FrameWords * (Depth + 1)) % Words
  <2>1. cpu.sp = (base - FrameWords * Depth) % Words
    BY <1>1, <1>4 DEF FrameWords
  <2>2. base - FrameWords * Depth \in Int /\ Words - FrameWords \in Int
    BY <1>1, <1>2, <1>3 DEF FrameWords
  <2>3. FramePtr = (cpu.sp + (Words - FrameWords)) % Words
    <3>1. cpu.sp \in Int
      BY <1>2, <2>1, <2>2, SpRange DEF Adr
    <3> QED BY <1>2, <3>1 DEF FramePtr, FrameWords
  <2>4. FramePtr = ((base - FrameWords * Depth) + (Words - FrameWords)) % Words
    BY <1>2, <2>1, <2>2, <2>3, RemainderAdd
  <2>5. (base - FrameWords * Depth) + (Words - FrameWords)
          = (base - FrameWords * (Depth + 1)) + Words
    BY <1>1, <1>2, <1>3 DEF FrameWords
  <2>6. base - FrameWords * (Depth + 1) \in Int
    BY <1>1, <1>3 DEF FrameWords
  <2> QED BY <1>2, <2>4, <2>5, <2>6, RemainderWrap
\* The k-th word of the frame pushed by context i.
<1> DEFINE At(i, k) == (base - FrameWords * i + k) % Words
<1>14. \A a \in Int : ((a % Words) + 1) % Words = (a + 1) % Words
  <2> SUFFICES ASSUME NEW a \in Int PROVE ((a % Words) + 1) % Words = (a + 1) % Words
    OBVIOUS
  <2>1. 1 \in Int
    OBVIOUS
  <2> QED BY <1>2, <2>1, RemainderAdd, Zenon
<1>6. \A i \in 1 .. Depth : Ctx(i + 1).sp = At(i, 0) /\ WordAt(Ctx(i + 1).sp, 1) = At(i, 1)
  <2> SUFFICES ASSUME NEW i \in 1 .. Depth
               PROVE  Ctx(i + 1).sp = At(i, 0) /\ WordAt(Ctx(i + 1).sp, 1) = At(i, 1)
    OBVIOUS
  <2>1. base - FrameWords * i \in Int /\ i + 1 \in 1 .. Depth + 1 /\ i + 1 - 1 = i
    BY <1>1, <1>3 DEF FrameWords
  <2>2. Ctx(i + 1).sp = (base - FrameWords * i) % Words
    BY <1>4, <2>1
  <2>3. (((base - FrameWords * i) % Words) + 1) % Words = At(i, 1)
    BY <2>1, <1>14, Zenon
  <2> QED BY <2>1, <2>2, <2>3 DEF WordAt
<1>7. FramePtr = At(Depth + 1, 0) /\ WordAt(FramePtr, 1) = At(Depth + 1, 1)
  <2>1. base - FrameWords * (Depth + 1) \in Int
    BY <1>1, <1>3 DEF FrameWords
  <2>2. (((base - FrameWords * (Depth + 1)) % Words) + 1) % Words = At(Depth + 1, 1)
    BY <2>1, <1>14, Zenon
  <2> QED BY <1>5, <2>1, <2>2 DEF WordAt
<1>8. \A i, j \in 1 .. Depth + 1, k, l \in {0, 1} :
        At(i, k) = At(j, l) => base - FrameWords * i + k = base - FrameWords * j + l
  <2> SUFFICES ASSUME NEW i \in 1 .. Depth + 1, NEW j \in 1 .. Depth + 1,
                      NEW k \in {0, 1}, NEW l \in {0, 1}, At(i, k) = At(j, l)
               PROVE  base - FrameWords * i + k = base - FrameWords * j + l
    OBVIOUS
  <2> DEFINE a == base - FrameWords * i + k
             b == base - FrameWords * j + l
  <2>1. a \in Int /\ b \in Int
    BY <1>1, <1>3 DEF FrameWords
  <2>2. a - b < Words /\ b - a < Words
    BY <1>1, <1>2, <1>3 DEF FrameWords
  <2>3. a % Words = b % Words
    OBVIOUS
  <2> HIDE DEF a, b
  <2>4. a = b
    BY <1>2, <2>1, <2>2, <2>3, SameRemainder
  <2> QED BY <2>4 DEF a, b
<1>9. \A i \in 1 .. Depth + 1, k \in {0, 1} : At(i, k) \in Adr
  <2> SUFFICES ASSUME NEW i \in 1 .. Depth + 1, NEW k \in {0, 1} PROVE At(i, k) \in Adr
    OBVIOUS
  <2>1. base - FrameWords * i + k \in Int
    BY <1>1, <1>3 DEF FrameWords
  <2> QED BY <2>1, SpRange
<1>10. WordAt(FramePtr, 0) = FramePtr
  <2>1. FramePtr \in Adr
    BY <1>1, <1>7, <1>9
  <2> QED BY <2>1, <1>2 DEF WordAt, Adr
<1>11. At(Depth + 1, 0) # At(Depth + 1, 1)
  BY <1>1, <1>3, <1>8 DEF FrameWords
<1>12. \A i \in 1 .. Depth : {At(i, 0), At(i, 1)} \cap {At(Depth + 1, 0), At(Depth + 1, 1)} = {}
  <2> SUFFICES ASSUME NEW i \in 1 .. Depth, NEW k \in {0, 1}, NEW l \in {0, 1},
                      At(i, k) = At(Depth + 1, l)
               PROVE  FALSE
    BY Zenon
  <2>1. i \in 1 .. Depth + 1 /\ Depth + 1 \in 1 .. Depth + 1
    BY <1>1
  <2>2. base - FrameWords * i + k = base - FrameWords * (Depth + 1) + l
    BY <1>8, <2>1
  <2> QED BY <1>1, <1>3, <2>2 DEF FrameWords
<1> HIDE DEF At
<1>13. Depth + 1 \in 1 .. Depth + 1
  BY <1>1
<1> QED BY <1>5, <1>6, <1>7, <1>9, <1>10, <1>11, <1>12, <1>13 DEF base

\* The entry of an exception adds a context and leaves the others as they are.
LEMMA EntryKeepsStack ==
  ASSUME StackInv, phase # "panic", StackHoldsNesting,
         NEW e \in TakenAt(phase), ExceptionEntry(e)
  PROVE  StackInv'
<1>0. PICK d \in Nat : d = Depth
  BY CtxTyped DEF StackInv
<1>1. e \in Exc /\ Prio[e] < ExecutingPriority(cpu.ipsr)
  BY DEF TakenAt, Takes, Selected, Candidates
<1>2. /\ d = Depth
      /\ \A i \in 1 .. d + 1 : Ctx(i) \in Context
      /\ \A i \in 1 .. d : Ctx(i) = frames[i].cpu /\ frames[i] \in Frame
      /\ Ctx(d + 1) = cpu
  BY <1>0, CtxTyped DEF StackInv
<1>3. /\ \A i \in 1 .. d + 1 : Nested(i)
      /\ \A i, j \in 1 .. d + 1 : i < j => Preempts(i, j)
      /\ \A i \in 1 .. d : Held(i)
  BY <1>2 DEF StackInv, StackHeld
<1>4. FrameWords * (d + 1) <= Words
  BY <1>1, <1>2, EntryFits
<1> DEFINE word1 == FramePtr
           word2 == WordAt(FramePtr, 1)
           new   == [cpu |-> cpu, witness |-> FALSE]
           fs    == Append(frames, new)
<1>5. /\ word1 = (Ctx(1).sp - FrameWords * (d + 1)) % Words
      /\ WordAt(FramePtr, 0) = word1
      /\ word1 \in Adr /\ word2 \in Adr /\ word1 # word2
      /\ \A i \in 1 .. d :
           {Ctx(i + 1).sp, WordAt(Ctx(i + 1).sp, 1)} \cap {word1, word2} = {}
  BY <1>2, <1>4, FramesApart
<1>6. /\ fs \in Seq(Frame) /\ Len(fs) = d + 1
      /\ \A i \in 1 .. d : fs[i] = frames[i]
      /\ fs[d + 1] = new
  BY <1>2 DEF Frame, StackInv, StackTyped, Depth
<1> DEFINE pends == BusFault \in fault'.exc.pending
<1>7. /\ frames' \in Seq(Frame) /\ Len(frames') = d + 1
      /\ \A i \in 1 .. d + 1 :
           /\ frames'[i].cpu = fs[i].cpu
           /\ frames'[i].witness = (fs[i].witness \/ pends)
  <2>1. frames' = Witnessed(fs)
    BY DEF ExceptionEntry
  <2> HIDE DEF fs
  <2> QED BY <1>6, <2>1, WitnessedFrames
<1>8. /\ Depth' = d + 1
      /\ \A i \in 1 .. d + 1 : Ctx(i)' = Ctx(i)
      /\ Ctx(d + 2)' = cpu'
  <2>1. Depth' = d + 1
    BY <1>7 DEF Depth
  <2> HIDE DEF fs
  <2>2. \A i \in 1 .. d + 1 : Ctx(i)' = fs[i].cpu
    BY <1>7, <2>1 DEF Ctx
  <2>3. \A i \in 1 .. d + 1 : fs[i].cpu = Ctx(i)
    BY <1>2, <1>6
  <2>4. Ctx(d + 2)' = cpu'
    BY <1>2, <2>1 DEF Ctx
  <2> QED BY <2>1, <2>2, <2>3, <2>4
<1>9. cpu' = [mode |-> "Handler", ipsr |-> e, thumb |-> 1, sp |-> word1,
              lr |-> IF cpu.mode = "Handler" THEN ReturnHandler ELSE ReturnMain]
  BY DEF ExceptionEntry
<1>10. \A a \in Adr : mem'[a] = IF ~Writable(a) THEN mem[a]
                                ELSE IF a = word2 THEN Xpsr(cpu)
                                ELSE IF a = word1 THEN cpu.lr ELSE mem[a]
  BY DEF ExceptionEntry
<1>11. cpu \in Context /\ mem \in [Adr -> Content] /\ \A a \in Adr : ~Writable(a) => mem[a] = 0
  BY DEF StackInv, StackTyped
<1>12. StackTyped'
  <2>1. cpu' \in Context
    BY <1>1, <1>5, <1>9 DEF Context
  <2>2. mem' \in [Adr -> Content]
    <3>1. Xpsr(cpu) \in Content
      BY <1>11, XpsrDecodes
    <3>2. cpu.lr \in Content
      BY <1>11 DEF Context, Content, ThreadLR, ReturnHandler, ReturnMain
    <3> QED BY <1>11, <3>1, <3>2 DEF ExceptionEntry
  <2>3. \A a \in Adr : ~Writable(a) => mem'[a] = 0
    BY <1>10, <1>11
  <2> QED BY <1>7, <2>1, <2>2, <2>3 DEF StackTyped, Writable, Content, Frame, Context
<1> HIDE DEF fs, new
<1>13. \A i \in 1 .. d + 2 : Nested(i)'
  <2> SUFFICES ASSUME NEW i \in 1 .. d + 2 PROVE Nested(i)'
    OBVIOUS
  <2>1. Ctx(1)' = Ctx(1)
    BY <1>2, <1>8
  <2>2. CASE i \in 1 .. d + 1
    <3>1. Nested(i) /\ Ctx(i)' = Ctx(i)
      BY <1>3, <1>8, <2>2
    <3> QED BY <2>1, <3>1 DEF Nested
  <2>3. CASE i = d + 2
    <3>1. Ctx(i)' = cpu'
      BY <1>8, <2>3
    <3>2. cpu'.sp = (Ctx(1)'.sp - FrameWords * (i - 1)) % Words
      BY <1>2, <1>5, <1>9, <2>1, <2>3
    <3>3. cpu.mode = IF d = 0 THEN "Thread" ELSE "Handler"
      BY <1>2, <1>3 DEF Nested
    <3> QED BY <1>1, <1>2, <1>9, <2>3, <3>1, <3>2, <3>3 DEF Nested
  <2> QED BY <1>2, <2>2, <2>3
<1>14. \A i, j \in 1 .. d + 2 : i < j => Preempts(i, j)'
  <2> SUFFICES ASSUME NEW i \in 1 .. d + 2, NEW j \in 1 .. d + 2, i < j
               PROVE  Preempts(i, j)'
    OBVIOUS
  <2>1. i \in 1 .. d + 1 /\ Ctx(i)' = Ctx(i)
    BY <1>2, <1>8
  <2>2. CASE j \in 1 .. d + 1
    BY <1>3, <1>8, <2>1, <2>2 DEF Preempts
  <2>3. CASE j = d + 2
    <3>1. ExecutingPriority(e) < ExecutingPriority(cpu.ipsr)
      <4>1. e # NoException
        BY <1>1, ExcAssumption DEF NoException
      <4> QED BY <1>1, <4>1 DEF ExecutingPriority
    <3>2. Ctx(j)'.ipsr = e
      BY <1>8, <1>9, <2>3
    <3>3. CASE i = d + 1
      BY <1>2, <2>1, <3>1, <3>2, <3>3 DEF Preempts
    <3>4. CASE i < d + 1
      <4>1. d + 1 \in 1 .. d + 1
        BY <1>2
      <4>2. ExecutingPriority(cpu.ipsr) < ExecutingPriority(Ctx(i).ipsr)
        BY <1>2, <1>3, <2>1, <3>4, <4>1 DEF Preempts
      <4>3. \A n \in {NoException} \cup Exc : ExecutingPriority(n) \in Int
        BY PrioAssumption DEF ExecutingPriority
      <4>4. /\ ExecutingPriority(cpu.ipsr) \in Int
            /\ ExecutingPriority(Ctx(i).ipsr) \in Int
            /\ ExecutingPriority(e) \in Int
        BY <1>1, <1>2, <1>11, <2>1, <4>3 DEF Context
      <4> QED BY <2>1, <3>1, <3>2, <4>2, <4>4 DEF Preempts
    <3> QED BY <1>2, <2>1, <3>3, <3>4
  <2> QED BY <1>2, <2>2, <2>3
<1>15. \A i \in 1 .. d : Held(i)'
  <2> SUFFICES ASSUME NEW i \in 1 .. d PROVE Held(i)'
    OBVIOUS
  <2>1. /\ Held(i) /\ i \in 1 .. d + 1 /\ i + 1 \in 1 .. d + 1
    BY <1>2, <1>3
  <2>2. Ctx(i + 1)' = Ctx(i + 1) /\ Ctx(i + 1).sp \in Adr
    BY <1>2, <1>8, <2>1 DEF Context
  <2>3. WordAt(Ctx(i + 1).sp, 1) \in Adr
    BY <2>2, SpRange, BusAssumption DEF WordAt, Adr
  <2>4. frames'[i].cpu = frames[i].cpu /\ (frames[i].witness => frames'[i].witness)
    BY <1>6, <1>7, <2>1
  <2>5. \A a \in {Ctx(i + 1).sp, WordAt(Ctx(i + 1).sp, 1)} : mem'[a] = mem[a]
    BY <1>5, <1>10, <2>2, <2>3
  <2> QED BY <2>1, <2>2, <2>4, <2>5 DEF Held, Writable, Xpsr, WordAt
<1>16. Held(d + 1)'
  <2>1. Ctx(d + 2)'.sp = word1
    BY <1>8, <1>9
  <2>2. /\ mem'[word1] = IF Writable(word1) THEN cpu.lr ELSE 0
        /\ mem'[word2] = IF Writable(word2) THEN Xpsr(cpu) ELSE 0
    BY <1>5, <1>10, <1>11
  <2>3. frames'[d + 1].cpu = cpu /\ frames'[d + 1].witness = pends
    BY <1>2, <1>6, <1>7 DEF new
  <2>4. pends \/ (Writable(word1) /\ Writable(word2))
    <3>1. SUFFICES ASSUME ~(Writable(word1) /\ Writable(word2)) PROVE pends
      OBVIOUS
    <3>2. 0 \in RefusedWrites(FramePtr, FrameWords) \/ 1 \in RefusedWrites(FramePtr, FrameWords)
      BY <1>5, <3>1 DEF RefusedWrites, FrameWords
    <3>3. fault' = EntryFaults(e)
      BY DEF ExceptionEntry
    <3> QED BY <3>2, <3>3, EntryPending
  <2>5. d + 1 + 1 = d + 2
    BY <1>2
  <2> HIDE DEF pends, word1, word2
  <2>6. word2 = WordAt(word1, 1)
    BY DEF word1, word2
  <2> QED BY <2>1, <2>2, <2>3, <2>4, <2>5, <2>6 DEF Held, Writable, Xpsr, WordAt
<1> QED
  <2>1. Depth' + 1 = d + 2 /\ \A i \in 1 .. Depth' : i \in 1 .. d \/ i = d + 1
    BY <1>2, <1>8
  <2>2. /\ \A i \in 1 .. Depth' + 1 : Nested(i)'
        /\ \A i, j \in 1 .. Depth' + 1 : i < j => Preempts(i, j)'
        /\ \A i \in 1 .. Depth' : Held(i)'
    BY <1>13, <1>14, <1>15, <1>16, <2>1
  <2> QED BY <1>12, <2>2 DEF StackInv, StackHeld

\* A return takes up the last context, exactly as it was or with BusFault
\* pending since; only in the second case can it have lost its LR or its xPSR.
LEMMA ReturnKeepsStack ==
  ASSUME StackInv, phase # "panic", ExecReturn
  PROVE  /\ StackInv'
         /\ \/ cpu' = frames[Len(frames)].cpu
            \/ frames[Len(frames)].witness
<1>0. PICK d \in Nat : d = Depth
  BY CtxTyped DEF StackInv
<1>1. /\ d = Depth
      /\ \A i \in 1 .. d + 1 : Ctx(i) \in Context
      /\ \A i \in 1 .. d : Ctx(i) = frames[i].cpu /\ frames[i] \in Frame
      /\ Ctx(d + 1) = cpu
  BY <1>0, CtxTyped DEF StackInv
<1>2. /\ \A i \in 1 .. d + 1 : Nested(i)
      /\ \A i, j \in 1 .. d + 1 : i < j => Preempts(i, j)
      /\ \A i \in 1 .. d : Held(i)
  BY <1>1 DEF StackInv, StackHeld
<1>3. /\ cpu.mode = "Handler" /\ cpu.lr \in {ReturnHandler, ReturnMain}
      /\ cpu' = Popped /\ mem' = mem
      /\ frames' = Witnessed(SubSeq(frames, 1, d - 1))
      /\ phase' # "panic"
           => (Popped.mode = "Handler" <=> Popped.ipsr # NoException)
  BY <1>1 DEF ExecReturn, Depth
<1>4. d >= 1
  BY <1>1, <1>2, <1>3 DEF Nested
<1> DEFINE c     == frames[d].cpu
           word1 == cpu.sp
           word2 == WordAt(cpu.sp, 1)
<1>5. c = Ctx(d) /\ c \in Context /\ cpu \in Context /\ Nested(d) /\ Nested(d + 1)
  BY <1>1, <1>2, <1>4
<1>6. /\ word1 \in Adr /\ word2 \in Adr
      /\ mem[word1] = IF Writable(word1) THEN c.lr ELSE 0
      /\ mem[word2] = IF Writable(word2) THEN Xpsr(c) ELSE 0
      /\ frames[d].witness \/ (Writable(word1) /\ Writable(word2))
  <2>1. Held(d)
    BY <1>2, <1>4
  <2>2. word1 \in Adr
    BY <1>5 DEF Context
  <2>3. word2 \in Adr
    BY <2>2, SpRange, BusAssumption DEF WordAt, Adr
  <2> QED BY <1>1, <2>1, <2>2, <2>3, Zenon DEF Held
<1>7. Popped.mode = c.mode
  <2> HIDE DEF c
  <2>1. Popped.mode = IF cpu.lr = ReturnHandler THEN "Handler" ELSE "Thread"
    BY DEF Popped
  <2>2. c.mode = IF d = 1 THEN "Thread" ELSE "Handler"
    BY <1>5 DEF Nested
  <2>3. /\ d + 1 = 2 => cpu.lr \in {0, ReturnMain}
        /\ d + 1 > 2 => cpu.lr \in {0, ReturnHandler}
    BY <1>1, <1>5 DEF Nested
  <2> QED BY <1>3, <1>4, <2>1, <2>2, <2>3 DEF ReturnHandler, ReturnMain
<1>8. Popped.sp = c.sp
  <2> DEFINE base == Ctx(1).sp
  <2>1. Words \in Int /\ Words > 0
    BY BusAssumption
  <2>2. base \in Int
    BY <1>1, <1>4, <2>1 DEF Context, Adr
  <2>3. cpu.sp = (base - FrameWords * d) % Words
    BY <1>1, <1>5 DEF Nested
  <2>4. c.sp = (base - FrameWords * (d - 1)) % Words
    BY <1>5 DEF Nested
  <2> HIDE DEF base
  <2>5. base - FrameWords * d \in Int /\ FrameWords \in Int
    BY <1>4, <2>2 DEF FrameWords
  <2>6. (((base - FrameWords * d) % Words) + FrameWords) % Words
          = ((base - FrameWords * d) + FrameWords) % Words
    BY <2>1, <2>5, RemainderAdd
  <2>7. (base - FrameWords * d) + FrameWords = base - FrameWords * (d - 1)
    BY <1>4, <2>2 DEF FrameWords
  <2> HIDE DEF c
  <2>8. Popped.sp = (cpu.sp + FrameWords) % Words
    BY DEF Popped
  <2> QED BY <2>3, <2>4, <2>6, <2>7, <2>8
<1>9. /\ Popped.lr = IF Readable(word1) THEN mem[word1] ELSE 0
      /\ Popped.ipsr = (IF Readable(word2) THEN mem[word2] ELSE 0) % 64
      /\ Popped.thumb = (IF Readable(word2) THEN mem[word2] ELSE 0) \div 64
  BY DEF Popped, Read
<1>10. /\ Xpsr(c) % 64 = c.ipsr /\ Xpsr(c) \div 64 = c.thumb
       /\ 0 % 64 = 0 /\ 0 \div 64 = 0
  BY <1>5, XpsrDecodes
<1> HIDE DEF c, word1, word2
<1>11. /\ Popped.lr \in {c.lr, 0}
       /\ \/ Popped.ipsr = c.ipsr /\ Popped.thumb = c.thumb
          \/ Popped.ipsr = 0 /\ Popped.thumb = 0
  BY <1>6, <1>9, <1>10, Zenon
<1>13. Popped = [mode |-> Popped.mode, ipsr |-> Popped.ipsr, thumb |-> Popped.thumb,
                 lr |-> Popped.lr, sp |-> Popped.sp]
  BY DEF Popped
<1>14. Popped \in Context
  <2>1. /\ c.mode \in {"Thread", "Handler"}
        /\ c.ipsr \in {NoException} \cup Exc
        /\ c.thumb \in {0, 1}
        /\ c.sp \in Adr
        /\ c.lr \in {0, ThreadLR, ReturnHandler, ReturnMain}
    BY <1>5 DEF Context
  <2>2. /\ Popped.ipsr \in {NoException} \cup Exc
        /\ Popped.thumb \in {0, 1}
        /\ Popped.lr \in {0, ThreadLR, ReturnHandler, ReturnMain}
    BY <1>11, <2>1 DEF NoException
  <2> QED BY <1>7, <1>8, <1>13, <2>1, <2>2 DEF Context
<1>15. frames[d].witness \/ Popped = c
  <2>1. SUFFICES ASSUME Writable(word1) /\ Writable(word2) PROVE Popped = c
    BY <1>6
  <2>2. Readable(word1) /\ Readable(word2)
    BY <2>1 DEF Readable, Writable
  <2>3. /\ Popped.lr = c.lr /\ Popped.ipsr = c.ipsr /\ Popped.thumb = c.thumb
    BY <1>6, <1>9, <1>10, <2>1, <2>2, Zenon
  <2>4. c = [mode |-> c.mode, ipsr |-> c.ipsr, thumb |-> c.thumb, lr |-> c.lr,
             sp |-> c.sp]
    BY <1>5 DEF Context
  <2> QED BY <1>7, <1>8, <1>13, <2>3, <2>4
<1> DEFINE fs == SubSeq(frames, 1, d - 1)
<1>16. fs \in Seq(Frame) /\ Len(fs) = d - 1 /\ \A i \in 1 .. d - 1 : fs[i] = frames[i]
  BY <1>1, <1>4 DEF StackInv, StackTyped, Depth
<1> HIDE DEF fs
<1>17. /\ frames' \in Seq(Frame) /\ Len(frames') = d - 1
       /\ \A i \in 1 .. d - 1 :
            /\ frames'[i].cpu = frames[i].cpu
            /\ frames[i].witness => frames'[i].witness
  <2>1. frames' = Witnessed(fs)
    BY <1>3 DEF fs
  <2> QED BY <1>16, <2>1, WitnessedFrames
<1>18. StackTyped'
  BY <1>3, <1>14, <1>17
     DEF StackInv, StackTyped, Frame, Context, Content, Writable
<1>19. /\ Depth' = d - 1
       /\ \A i \in 1 .. d - 1 : Ctx(i)' = Ctx(i)
       /\ Ctx(d)' = Popped
  <2>1. Depth' = d - 1
    BY <1>17 DEF Depth
  <2>2. \A i \in 1 .. d - 1 : Ctx(i)' = frames[i].cpu
    BY <1>17, <2>1 DEF Ctx
  <2>3. Ctx(d)' = cpu'
    BY <1>4, <2>1 DEF Ctx
  <2> QED BY <1>1, <1>3, <1>4, <2>1, <2>2, <2>3
<1>20. StackHeld'
  <2> SUFFICES ASSUME phase' # "panic"
               PROVE  /\ \A i \in 1 .. d : Nested(i)'
                      /\ \A i, j \in 1 .. d : i < j => Preempts(i, j)'
                      /\ \A i \in 1 .. d - 1 : Held(i)'
    <3>1. Depth' + 1 = d
      BY <1>4, <1>19
    <3> QED BY <1>19, <3>1 DEF StackHeld
  <2>1. Popped.ipsr = c.ipsr
    <3>1. CASE d = 1
      <4>1. c.ipsr = NoException
        BY <1>5, <3>1 DEF Nested
      <4> QED BY <1>11, <4>1 DEF NoException
    <3>2. CASE d # 1
      <4>1. c.mode = "Handler"
        BY <1>5, <3>2 DEF Nested
      <4> QED BY <1>3, <1>7, <1>11, <4>1 DEF NoException
    <3> QED BY <3>1, <3>2
  <2>2. \A i \in 1 .. d : /\ Ctx(i)'.ipsr = Ctx(i).ipsr
                          /\ Ctx(i)'.sp = Ctx(i).sp
                          /\ Ctx(i)'.mode = Ctx(i).mode
                          /\ Ctx(i)'.lr \in {Ctx(i).lr, 0}
    <3> SUFFICES ASSUME NEW i \in 1 .. d
                 PROVE  /\ Ctx(i)'.ipsr = Ctx(i).ipsr
                        /\ Ctx(i)'.sp = Ctx(i).sp
                        /\ Ctx(i)'.mode = Ctx(i).mode
                        /\ Ctx(i)'.lr \in {Ctx(i).lr, 0}
      OBVIOUS
    <3>1. CASE i = d
      BY <1>5, <1>7, <1>8, <1>11, <1>19, <2>1, <3>1
    <3>2. CASE i \in 1 .. d - 1
      BY <1>19, <3>2
    <3> QED BY <3>1, <3>2
  <2>3. \A i \in 1 .. d : Nested(i)'
    <3> SUFFICES ASSUME NEW i \in 1 .. d PROVE Nested(i)'
      OBVIOUS
    <3>1. Nested(i) /\ 1 \in 1 .. d /\ i \in 1 .. d + 1
      BY <1>2, <1>4
    <3>2. /\ Ctx(i)'.ipsr = Ctx(i).ipsr
          /\ Ctx(i)'.sp = Ctx(i).sp
          /\ Ctx(i)'.mode = Ctx(i).mode
          /\ Ctx(i)'.lr \in {Ctx(i).lr, 0}
          /\ Ctx(1)'.sp = Ctx(1).sp
      BY <2>2, <3>1
    <3> QED BY <3>1, <3>2 DEF Nested
  <2>4. \A i, j \in 1 .. d : i < j => Preempts(i, j)'
    BY <1>2, <2>2 DEF Preempts
  <2>5. \A i \in 1 .. d - 1 : Held(i)'
    <3> SUFFICES ASSUME NEW i \in 1 .. d - 1 PROVE Held(i)'
      OBVIOUS
    <3>1. Held(i) /\ i + 1 \in 1 .. d
      BY <1>2, <1>4
    <3>2. Ctx(i + 1)'.sp = Ctx(i + 1).sp
      BY <2>2, <3>1
    <3>3. frames'[i].cpu = frames[i].cpu /\ (frames[i].witness => frames'[i].witness)
      BY <1>17
    <3> QED BY <1>3, <3>1, <3>2, <3>3 DEF Held, Writable, Xpsr, WordAt
  <2> QED BY <2>3, <2>4, <2>5
<1>21. frames[Len(frames)] = frames[d]
  BY <1>1 DEF Depth
<1> QED BY <1>3, <1>15, <1>18, <1>20, <1>21 DEF c, StackInv

\* An exception adds a context and a return removes one; everything else
\* leaves the interrupted contexts, and where they lie, as they are.
LEMMA StackStep ==
  ASSUME StackHoldsNesting, StackInv, [Next]_vars
  PROVE  StackInv'
<1> DEFINE Kept == /\ cpu' = cpu /\ mem' = mem
                   /\ \/ frames' = frames
                      \/ frames' = Witnessed(frames)
<1>1. ASSUME Kept, phase # "panic" PROVE StackInv'
  <2>1. frames \in Seq(Frame)
    BY DEF StackInv, StackTyped
  <2>2. /\ frames' \in Seq(Frame) /\ Len(frames') = Len(frames)
        /\ \A i \in 1 .. Len(frames) : /\ frames'[i].cpu = frames[i].cpu
                                       /\ frames[i].witness => frames'[i].witness
    BY <1>1, <2>1, WitnessedFrames
  <2> QED BY <1>1, <2>2, QuietStep
<1>2. CASE CheckEntry
  <2>1. phase # "panic" /\ \E e \in TakenAt(phase) : ExceptionEntry(e)
    BY <1>2 DEF CheckEntry, Instants
  <2> QED BY <2>1, EntryKeepsStack
<1>3. CASE CheckNone
  BY <1>1, <1>3 DEF CheckNone, Instants
<1>4. CASE FetchOk
  BY <1>1, <1>4 DEF FetchOk
<1>5. CASE FetchRefused
  BY <1>1, <1>5 DEF FetchRefused
<1>6. CASE FetchInvalidState
  BY <1>1, <1>6 DEF FetchInvalidState
<1>7. CASE ExecLoad \/ ExecStore \/ ExecDivByZero \/ ExecSvc \/ ExecBkpt
  BY <1>1, <1>7 DEF ExecLoad, ExecStore, ExecDivByZero, ExecSvc, ExecBkpt, Executes
<1>8. CASE ExecStoreRegister
  BY <1>1, <1>8 DEF ExecStoreRegister, Executes
<1>9. CASE ExecBxToArm
  <2>1. /\ phase # "panic" /\ phase' # "panic" /\ mem' = mem /\ frames' = frames
        /\ cpu' = [cpu EXCEPT !.thumb = 0]
    BY <1>9 DEF ExecBxToArm
  <2>2. cpu \in Context
    BY DEF StackInv, StackTyped
  <2>3. /\ cpu' \in Context /\ cpu'.mode = cpu.mode /\ cpu'.ipsr = cpu.ipsr
        /\ cpu'.lr = cpu.lr /\ cpu'.sp = cpu.sp
    BY <2>1, <2>2 DEF Context
  <2>4. Depth' = Depth /\ Depth \in Nat
    BY <2>1, CtxTyped DEF Depth, StackInv
  <2>5. \A i : /\ Ctx(i)'.mode = Ctx(i).mode /\ Ctx(i)'.ipsr = Ctx(i).ipsr
               /\ Ctx(i)'.lr = Ctx(i).lr /\ Ctx(i)'.sp = Ctx(i).sp
    BY <2>1, <2>3, <2>4 DEF Ctx
  <2>6. \A i : Nested(i) => Nested(i)'
    BY <2>5 DEF Nested
  <2>7. \A i, j : Preempts(i, j) => Preempts(i, j)'
    BY <2>5 DEF Preempts
  <2>8. \A i : Held(i) => Held(i)'
    BY <2>1, <2>5 DEF Held, Writable, Xpsr, WordAt
  <2>9. StackTyped'
    BY <2>1, <2>3 DEF StackInv, StackTyped, Frame, Context, Content, Writable
  <2> QED BY <2>1, <2>4, <2>6, <2>7, <2>8, <2>9 DEF StackInv, StackHeld
<1>10. CASE ExecMoveSP
  <2>1. /\ phase # "panic" /\ mem' = mem /\ frames = <<>> /\ frames' = frames
        /\ \E a \in Adr : cpu' = [cpu EXCEPT !.sp = a]
    BY <1>10 DEF ExecMoveSP
  <2>2. cpu \in Context
    BY DEF StackInv, StackTyped
  <2>3. /\ cpu' \in Context /\ cpu'.mode = cpu.mode /\ cpu'.ipsr = cpu.ipsr
        /\ cpu'.lr = cpu.lr /\ cpu'.sp \in Adr
    BY <2>1, <2>2 DEF Context
  <2>4. Depth = 0 /\ Depth' = 0
    BY <2>1 DEF Depth
  <2>5. Ctx(1) = cpu /\ Ctx(1)' = cpu'
    BY <2>4 DEF Ctx
  <2>6. Nested(1)
    BY <2>1, <2>4 DEF StackInv, StackHeld
  <2>7. \A a \in Adr : (a - FrameWords * 0) % Words = a
    BY BusAssumption DEF Adr, FrameWords
  <2>8. Nested(1)'
    BY <2>3, <2>5, <2>6, <2>7 DEF Nested
  <2>9. StackTyped'
    BY <2>1, <2>3 DEF StackInv, StackTyped, Frame, Context, Content, Writable
  <2> QED BY <2>4, <2>8, <2>9 DEF StackInv, StackHeld
<1>11. CASE ExecReturn
  <2>1. phase # "panic"
    BY <1>11 DEF ExecReturn
  <2> QED BY <1>11, <2>1, ReturnKeepsStack
<1>12. CASE UNCHANGED vars
  BY <1>12 DEF vars, StackInv, StackTyped, StackHeld, Nested, Preempts, Held,
               Depth, Ctx, Frame, Context, Content, Writable, Xpsr, WordAt
<1> QED BY <1>2, <1>3, <1>4, <1>5, <1>6, <1>7, <1>8, <1>9, <1>10, <1>11,
           <1>12 DEF Next

LEMMA StackInit == Init => StackInv
<1> SUFFICES ASSUME Init PROVE StackInv
  OBVIOUS
<1>1. /\ frames = <<>> /\ mem = [a \in Adr |-> 0]
      /\ cpu \in [mode : {"Thread"}, ipsr : {NoException}, thumb : {1}, sp : Adr,
                  lr : {ThreadLR}]
  BY DEF Init
<1>2. StackTyped
  BY <1>1 DEF StackTyped, Context, Content
<1>3. Depth = 0 /\ Ctx(1) = cpu
  BY <1>1 DEF Depth, Ctx
<1>4. \A a \in Adr : (a - FrameWords * 0) % Words = a
  BY BusAssumption DEF Adr, FrameWords
<1>5. Nested(1)
  BY <1>1, <1>3, <1>4 DEF Nested
<1> QED BY <1>2, <1>3, <1>5 DEF StackInv, StackHeld

\* The frames of the interrupted contexts are where their returns look for
\* them, in every reachable state, whatever the bus refuses.
THEOREM StackCorrect ==
  ASSUME StackHoldsNesting
  PROVE  Spec => []StackInv
<1>1. StackInv /\ [Next]_vars => StackInv'
  BY StackStep
<1> QED BY <1>1, StackInit, PTL DEF Spec

\* An interrupted context that does not come back as it was comes back with
\* BusFault pending since: the loss of a part of a frame cannot go unnoticed.
THEOREM LossIsWitnessed ==
  ASSUME StackHoldsNesting
  PROVE  Spec => LossWitnessed
<1> DEFINE Loss == Len(frames') < Len(frames) =>
                     \/ cpu' = frames[Len(frames)].cpu
                     \/ frames[Len(frames)].witness
                     \/ BusFault \in fault'.exc.pending
<1>1. StackInv /\ [Next]_vars => [Loss]_vars
  <2> SUFFICES ASSUME StackInv, Next, Len(frames') < Len(frames)
               PROVE  \/ cpu' = frames[Len(frames)].cpu
                      \/ frames[Len(frames)].witness
    OBVIOUS
  <2>1. frames \in Seq(Frame) /\ Len(frames) \in Nat
    BY DEF StackInv, StackTyped
  <2>2. frames' # frames /\ frames' # Witnessed(frames)
    BY <2>1, WitnessedFrames
  <2>3. ~CheckEntry
    <3>1. SUFFICES ASSUME NEW e, ExceptionEntry(e) PROVE FALSE
      BY DEF CheckEntry
    <3> DEFINE fs == Append(frames, [cpu |-> cpu, witness |-> FALSE])
    <3>2. fs \in Seq(Frame) /\ Len(fs) = Len(frames) + 1
      BY <2>1 DEF Frame, StackInv, StackTyped
    <3>3. frames' = Witnessed(fs)
      BY <3>1 DEF ExceptionEntry
    <3> HIDE DEF fs
    <3> QED BY <2>1, <3>2, <3>3, WitnessedFrames
  <2>4. ~ExecMoveSP /\ ~ExecBxToArm /\ ~CheckNone /\ ~FetchOk
    BY <2>2 DEF ExecMoveSP, ExecBxToArm, CheckNone, FetchOk
  <2>5. ~FetchRefused /\ ~FetchInvalidState
    BY <2>2 DEF FetchRefused, FetchInvalidState
  <2>6. ~ExecLoad /\ ~ExecStore /\ ~ExecDivByZero /\ ~ExecSvc /\ ~ExecBkpt
    BY <2>2 DEF ExecLoad, ExecStore, ExecDivByZero, ExecSvc, ExecBkpt, Executes
  <2>7. ~ExecStoreRegister
    BY <2>2 DEF ExecStoreRegister, Executes
  <2>8. ExecReturn
    BY <2>3, <2>4, <2>5, <2>6, <2>7 DEF Next
  <2>9. phase # "panic"
    BY <2>8 DEF ExecReturn
  <2> QED BY <2>8, <2>9, ReturnKeepsStack
<1> QED BY <1>1, StackCorrect, PTL DEF Spec, LossWitnessed

------------------------------------------------------------------------------
(* Types *)

\* The address that ends up in BFAR is that of one of the words accessed.
LEMMA LastIsAddress ==
  ASSUME NEW base \in Adr, NEW n \in Nat, NEW S \in SUBSET (0 .. n - 1), S # {}
  PROVE  LastOf(base, S) \in Adr
<1> DEFINE last == CHOOSE i \in S : \A j \in S : j <= i
<1>1. \E i \in S : \A j \in S : j <= i
  <2>1. n - 1 \in Int
    OBVIOUS
  <2> QED BY <2>1, GreatestElement
<1>2. last \in S
  BY <1>1
<1> HIDE DEF last
<1>3. base + last \in Int
  BY <1>2, BusAssumption DEF Adr
<1> QED BY <1>3, SpRange DEF LastOf, WordAt, last

FaultState == [exc : ExcStates, cfsr : SUBSET Flags, bfar : Adr]

\* A fault status with its counter of pending exceptions as it should be.
SoundFault(x) == x \in FaultState /\ CountExact(x.exc)

LEMMA SoundParts ==
  ASSUME NEW exc \in ExcStates, CountExact(exc), NEW cfsr \in SUBSET Flags, NEW bfar \in Adr
  PROVE  SoundFault([exc |-> exc, cfsr |-> cfsr, bfar |-> bfar])
BY DEF SoundFault, FaultState

LEMMA PartsSound ==
  ASSUME NEW x, SoundFault(x)
  PROVE  /\ x.exc \in ExcStates /\ CountExact(x.exc)
         /\ x.cfsr \in SUBSET Flags /\ x.bfar \in Adr
BY DEF SoundFault, FaultState

LEMMA RaisedSound ==
  ASSUME NEW x, SoundFault(x), NEW e \in Exc
  PROVE  SoundFault(WithExc(x, SetPending(x.exc, e)))
<1>1. SetPending(x.exc, e) \in ExcStates /\ CountExact(SetPending(x.exc, e))
  BY PartsSound, SetPendingExact
<1> QED BY <1>1, PartsSound, SoundParts DEF WithExc

LEMMA UsageSound ==
  ASSUME NEW x, SoundFault(x), NEW flag \in UsageFlags
  PROVE  SoundFault(RaiseUsage(x, flag))
<1>1. SetPending(x.exc, UsageFault) \in ExcStates /\ CountExact(SetPending(x.exc, UsageFault))
  BY PartsSound, SetPendingExact, ExcAssumption
<1>2. x.cfsr \cup {flag} \in SUBSET Flags /\ x.bfar \in Adr
  BY PartsSound DEF Flags
<1> QED BY <1>1, <1>2, SoundParts DEF RaiseUsage

LEMMA ReadSound ==
  ASSUME NEW x, SoundFault(x), NEW kind \in AccessKinds, NEW base \in Adr, NEW n \in Nat
  PROVE  SoundFault(ReadOrRaise(x, kind, base, n))
<1> DEFINE S == RefusedReads(base, n)
<1>1. CASE S = {}
  BY <1>1 DEF ReadOrRaise
<1>2. CASE S # {}
  <2>1. LastOf(base, S) \in Adr
    <3>1. S \in SUBSET (0 .. n - 1)
      BY DEF RefusedReads
    <3> HIDE DEF S
    <3> QED BY <1>2, <3>1, LastIsAddress
  <2>2. SetPending(x.exc, BusFault) \in ExcStates /\ CountExact(SetPending(x.exc, BusFault))
    BY PartsSound, SetPendingExact, ExcAssumption
  <2> DEFINE cfsr == x.cfsr \cup {kind} \cup (IF kind = "PRECISERR" THEN {"BFARVALID"} ELSE {})
             bfar == IF kind \in {"PRECISERR", "IBUSERR"} THEN LastOf(base, S) ELSE x.bfar
  <2>3. cfsr \in SUBSET Flags /\ bfar \in Adr
    BY <2>1, PartsSound DEF Flags, BusFlags
  <2>4. ReadOrRaise(x, kind, base, n)
          = [exc |-> SetPending(x.exc, BusFault), cfsr |-> cfsr, bfar |-> bfar]
    BY <1>2 DEF ReadOrRaise, RaiseRead
  <2> HIDE DEF cfsr, bfar
  <2> QED BY <2>2, <2>3, <2>4, SoundParts
<1> QED BY <1>1, <1>2

LEMMA WriteSound ==
  ASSUME NEW x, SoundFault(x), NEW kind \in AccessKinds, NEW base \in Adr, NEW n \in Nat
  PROVE  SoundFault(WriteOrRaise(x, kind, base, n))
<1> DEFINE S == RefusedWrites(base, n)
<1>1. CASE S = {}
  BY <1>1 DEF WriteOrRaise
<1>2. CASE S # {}
  <2>1. LastOf(base, S) \in Adr
    <3>1. S \in SUBSET (0 .. n - 1)
      BY DEF RefusedWrites
    <3> HIDE DEF S
    <3> QED BY <1>2, <3>1, LastIsAddress
  <2>2. SetPending(x.exc, BusFault) \in ExcStates /\ CountExact(SetPending(x.exc, BusFault))
    BY PartsSound, SetPendingExact, ExcAssumption
  <2> DEFINE cfsr == x.cfsr \cup {kind, "BFARVALID"}
  <2>3. cfsr \in SUBSET Flags
    BY PartsSound DEF Flags, BusFlags
  <2>4. WriteOrRaise(x, kind, base, n)
          = [exc |-> SetPending(x.exc, BusFault), cfsr |-> cfsr, bfar |-> LastOf(base, S)]
    BY <1>2 DEF WriteOrRaise, RaiseWrite
  <2> HIDE DEF cfsr
  <2> QED BY <2>1, <2>2, <2>3, <2>4, SoundParts
<1> QED BY <1>1, <1>2

LEMMA EntrySound ==
  ASSUME NEW e \in TakenAt(phase), SoundFault(fault), FramePtr \in Adr
  PROVE  SoundFault(EntryFaults(e))
<1>1. e \in Exc /\ e \in fault.exc.pending
  BY DEF TakenAt, Takes, Selected, Candidates
<1> DEFINE y == WithExc(fault, ClearPending(fault.exc, e))
           x == WriteOrRaise(y, "UNSTKERR", FramePtr, FrameWords)
<1>2. SoundFault(y)
  <2>1. ClearPending(fault.exc, e) \in ExcStates /\ CountExact(ClearPending(fault.exc, e))
    BY <1>1, PartsSound, ClearPendingExact
  <2> QED BY <2>1, PartsSound, SoundParts DEF WithExc
<1>3. SoundFault(x)
  <2> HIDE DEF y
  <2>1. FrameWords \in Nat /\ "UNSTKERR" \in AccessKinds
    BY DEF FrameWords, AccessKinds
  <2> QED BY <1>2, <2>1, WriteSound
<1> HIDE DEF x
<1>4. SetActive(x.exc, e) \in ExcStates /\ CountExact(SetActive(x.exc, e))
  BY <1>1, <1>3, PartsSound, SetActiveExact
<1>5. SoundFault(WithExc(x, SetActive(x.exc, e)))
  BY <1>3, <1>4, PartsSound, SoundParts DEF WithExc
<1> QED BY <1>5 DEF EntryFaults, x

Phases == Instants \cup {"Fetch", "Execute", "panic"}
Histories == [unserved : SUBSET {BusFault, UsageFault}, at : Adr, ones : SUBSET Flags]

LEMMA RemembersTyped ==
  ASSUME NEW raised \in SUBSET {BusFault, UsageFault}, NEW at \in Adr, NEW served,
         history \in Histories, Remembers(raised, at, served)
  PROVE  history' \in Histories
<1>1. history.unserved \in SUBSET {BusFault, UsageFault}
  BY DEF Histories
<1>2. (history.unserved \ served) \cup raised \in SUBSET {BusFault, UsageFault}
  BY <1>1
<1> QED BY <1>2 DEF Remembers, Histories

TypeInv == /\ SoundFault(fault)
           /\ phase \in Phases
           /\ history \in Histories

LEMMA TypeStep ==
  ASSUME StackInv, TypeInv, [Next]_vars
  PROVE  TypeInv'
<1>0. SoundFault(fault') /\ phase' \in Phases /\ history' \in Histories => TypeInv'
  BY DEF TypeInv, SoundFault, FaultState, CountExact, ExcStates, Histories, Phases,
         Instants, Adr
<1>1. SoundFault(fault) /\ phase \in Phases /\ history \in Histories /\ history.at \in Adr
  BY DEF TypeInv, Histories
<1>2. cpu \in Context /\ cpu.sp \in Adr /\ 0 \in Adr
  BY BusAssumption DEF StackInv, StackTyped, Context, Adr
<1>3. FrameWords \in Nat /\ AccessKinds \subseteq Flags
      /\ {"UNSTKERR", "STKERR", "PRECISERR", "IBUSERR"} \subseteq AccessKinds
  BY DEF FrameWords, AccessKinds, Flags, BusFlags
<1> DEFINE raised(S) == IF S = {} THEN {} ELSE {BusFault}
<1>4. \A S : raised(S) \in SUBSET {BusFault, UsageFault}
  OBVIOUS
<1> HIDE DEF raised
<1>5. \A n \in Accesses : n \in Nat
  BY FaultStatusAssumption
<1>6. CASE CheckEntry
  <2>1. PICK e \in TakenAt(phase) : ExceptionEntry(e)
    BY <1>6 DEF CheckEntry
  <2>2. FramePtr \in Adr
    BY <1>2, <1>3, SpRange, BusAssumption DEF FramePtr, Adr, FrameWords
  <2>3. SoundFault(EntryFaults(e))
    BY <1>1, <2>2, EntrySound
  <2> DEFINE S == RefusedWrites(FramePtr, FrameWords)
             at == IF S = {} THEN history.at ELSE LastOf(FramePtr, S)
  <2>4. at \in Adr
    <3>1. S \in SUBSET (0 .. FrameWords - 1)
      BY DEF RefusedWrites
    <3> HIDE DEF S
    <3> QED BY <1>1, <1>3, <2>2, <3>1, LastIsAddress
  <2>5. Remembers(raised(S), at, {e})
    BY <2>1 DEF ExceptionEntry, raised
  <2> HIDE DEF S, at
  <2>6. history' \in Histories
    BY <1>1, <1>4, <2>4, <2>5, RemembersTyped
  <2>7. fault' = EntryFaults(e) /\ phase' \in Phases
    BY <1>6, <2>1 DEF CheckEntry, ExceptionEntry, Phases, Instants
  <2> QED BY <1>0, <2>3, <2>6, <2>7
<1>7. CASE CheckNone
  <2>1. fault' = fault /\ history' = history /\ phase' \in Phases
    BY <1>7 DEF CheckNone, Phases, Instants
  <2> QED BY <1>0, <1>1, <2>1
<1>8. CASE FetchOk
  <2>1. fault' = fault /\ history' = history /\ phase' \in Phases
    BY <1>8 DEF FetchOk, Phases, Instants
  <2> QED BY <1>0, <1>1, <2>1
<1>9. CASE FetchRefused
  <2>1. PICK a \in Adr : /\ fault' = ReadOrRaise(fault, "IBUSERR", a, 1)
                         /\ Remembers({BusFault}, a, {})
    BY <1>9 DEF FetchRefused
  <2>2. SoundFault(fault')
    BY <1>1, <1>3, <2>1, ReadSound
  <2>3. history' \in Histories
    <3>1. {BusFault} \in SUBSET {BusFault, UsageFault}
      OBVIOUS
    <3> QED BY <1>1, <2>1, <3>1, RemembersTyped
  <2>4. phase' \in Phases
    BY <1>9 DEF FetchRefused, Phases, Instants
  <2> QED BY <1>0, <2>2, <2>3, <2>4
<1>10. CASE FetchInvalidState \/ ExecDivByZero
  <2>1. PICK flag \in UsageFlags : fault' = RaiseUsage(fault, flag)
    BY <1>10 DEF FetchInvalidState, ExecDivByZero, Executes, UsageFlags
  <2>2. Remembers({UsageFault}, history.at, {}) /\ phase' \in Phases
    BY <1>10 DEF FetchInvalidState, ExecDivByZero, Executes, Phases, Instants
  <2>3. history' \in Histories
    <3>1. {UsageFault} \in SUBSET {BusFault, UsageFault}
      OBVIOUS
    <3> QED BY <1>1, <2>2, <3>1, RemembersTyped
  <2> QED BY <1>0, <1>1, <2>1, <2>2, <2>3, UsageSound
<1>11. CASE ExecLoad
  <2>1. PICK a \in Adr, n \in Accesses :
          /\ fault' = ReadOrRaise(fault, "PRECISERR", a, n)
          /\ Remembers(raised(RefusedReads(a, n)),
                       IF RefusedReads(a, n) = {} THEN history.at
                       ELSE LastOf(a, RefusedReads(a, n)), {})
    BY <1>11 DEF ExecLoad, Executes, raised
  <2>2. RefusedReads(a, n) \in SUBSET (0 .. n - 1)
    BY DEF RefusedReads
  <2>3. (IF RefusedReads(a, n) = {} THEN history.at ELSE LastOf(a, RefusedReads(a, n))) \in Adr
    BY <1>1, <1>5, <2>2, LastIsAddress
  <2>4. history' \in Histories
    BY <1>1, <1>4, <2>1, <2>3, RemembersTyped
  <2>5. SoundFault(fault')
    BY <1>1, <1>3, <1>5, <2>1, ReadSound
  <2>6. phase' \in Phases
    BY <1>11 DEF ExecLoad, Executes, Phases, Instants
  <2> QED BY <1>0, <2>4, <2>5, <2>6
<1>12. CASE ExecStore
  <2>1. PICK a \in Adr, n \in Accesses :
          /\ fault' = WriteOrRaise(fault, "PRECISERR", a, n)
          /\ Remembers(raised(RefusedWrites(a, n)),
                       IF RefusedWrites(a, n) = {} THEN history.at
                       ELSE LastOf(a, RefusedWrites(a, n)), {})
    BY <1>12 DEF ExecStore, Executes, raised
  <2>2. RefusedWrites(a, n) \in SUBSET (0 .. n - 1)
    BY DEF RefusedWrites
  <2>3. (IF RefusedWrites(a, n) = {} THEN history.at ELSE LastOf(a, RefusedWrites(a, n))) \in Adr
    BY <1>1, <1>5, <2>2, LastIsAddress
  <2>4. history' \in Histories
    BY <1>1, <1>4, <2>1, <2>3, RemembersTyped
  <2>5. SoundFault(fault')
    BY <1>1, <1>3, <1>5, <2>1, WriteSound
  <2>6. phase' \in Phases
    BY <1>12 DEF ExecStore, Executes, Phases, Instants
  <2> QED BY <1>0, <2>4, <2>5, <2>6
<1>13. CASE ExecSvc \/ ExecBkpt
  <2>1. PICK e \in Exc : fault' = WithExc(fault, SetPending(fault.exc, e))
    BY <1>13, ExcAssumption DEF ExecSvc, ExecBkpt, Executes
  <2>2. Remembers({}, history.at, {}) /\ phase' \in Phases
    BY <1>13 DEF ExecSvc, ExecBkpt, Executes, Phases, Instants
  <2>3. history' \in Histories
    <3>1. {} \in SUBSET {BusFault, UsageFault}
      OBVIOUS
    <3> QED BY <1>1, <2>2, <3>1, RemembersTyped
  <2> QED BY <1>0, <1>1, <2>1, <2>2, <2>3, RaisedSound
<1>14. CASE ExecStoreRegister
  <2>1. PICK part \in {"BFSR", "UFSR", "CFSR"}, value \in Values :
          LET ones == value \cap Covers(part)
          IN  /\ \/ fault' = WriteCfsr(fault, part, ones)
                 \/ fault' = WriteBfar(fault, ones)
              /\ history' = [unserved |-> history.unserved, at |-> history.at,
                             ones |-> ones]
              /\ phase' = "PostExec"
    BY <1>14 DEF ExecStoreRegister, Executes
  <2>2. value \cap Covers(part) \in SUBSET Flags
    BY FaultStatusAssumption
  <2>3. fault.cfsr \ (value \cap Covers(part)) \in SUBSET Flags
    BY <1>1, PartsSound
  <2>4. SoundFault(fault')
    BY <1>1, <2>1, <2>2, <2>3, PartsSound, SoundParts
       DEF WriteCfsr, WriteBfar, WithCfsr
  <2>5. history' \in Histories
    BY <1>1, <2>1, <2>2 DEF Histories
  <2> QED BY <1>0, <2>1, <2>4, <2>5 DEF Phases, Instants
<1>15. CASE ExecBxToArm \/ ExecMoveSP
  <2>1. fault' = fault /\ history' = history /\ phase' = "PostExec"
    BY <1>15 DEF ExecBxToArm, ExecMoveSP
  <2> QED BY <1>0, <1>1, <2>1 DEF Phases, Instants
<1>16. CASE ExecReturn
  <2> DEFINE y == WithExc(fault, ClearActive(fault.exc, cpu.ipsr))
  <2>1. SoundFault(y)
    <3>1. /\ ClearActive(fault.exc, cpu.ipsr) \in ExcStates
          /\ CountExact(ClearActive(fault.exc, cpu.ipsr))
      BY <1>1, PartsSound, ClearActiveExact
    <3> QED BY <1>1, <3>1, PartsSound, SoundParts DEF WithExc
  <2>2. fault' = ReadOrRaise(y, "STKERR", cpu.sp, FrameWords)
    BY <1>16 DEF ExecReturn
  <2> HIDE DEF y
  <2>3. SoundFault(fault')
    BY <1>2, <1>3, <2>1, <2>2, ReadSound
  <2>4. history' \in Histories
    <3>1. Remembers(raised(RefusedReads(cpu.sp, FrameWords)), history.at, {})
      BY <1>16 DEF ExecReturn, raised
    <3> QED BY <1>1, <1>4, <3>1, RemembersTyped
  <2>5. phase' \in Phases
    BY <1>16 DEF ExecReturn, Phases, Instants
  <2> QED BY <1>0, <2>3, <2>4, <2>5
<1>17. CASE UNCHANGED vars
  BY <1>0, <1>1, <1>17 DEF vars
<1> QED BY <1>6, <1>7, <1>8, <1>9, <1>10, <1>11, <1>12, <1>13, <1>14, <1>15,
           <1>16, <1>17 DEF Next

\* Types, for every address space whose stack holds the handlers nested as
\* deep as the priorities allow.  Without that, frames overlap, an EXC_RETURN
\* is popped for an xPSR, and its exception number need not be one of Exc.
THEOREM FaultTypeCorrect ==
  ASSUME StackHoldsNesting
  PROVE  Spec => []FaultTypeOK
<1>1. Init => TypeInv
  <2> SUFFICES ASSUME Init PROVE TypeInv
    OBVIOUS
  <2>1. /\ fault = [exc |-> InitExceptionStates, cfsr |-> {}, bfar |-> 0]
        /\ phase = "PreFetch"
        /\ history = [unserved |-> {}, at |-> 0, ones |-> {}]
    BY DEF Init
  <2>2. InitExceptionStates \in ExcStates /\ CountExact(InitExceptionStates)
    BY FS_EmptySet DEF InitExceptionStates, ExcStates, CountExact
  <2>3. 0 \in Adr
    BY BusAssumption DEF Adr
  <2>4. SoundFault(fault)
    BY <2>1, <2>2, <2>3, SoundParts
  <2> QED BY <2>1, <2>3, <2>4 DEF TypeInv, Histories, Phases, Instants
<1>2. StackInv /\ TypeInv /\ [Next]_vars => TypeInv'
  BY TypeStep
<1>3. StackInv /\ TypeInv => FaultTypeOK
  BY DEF StackInv, StackTyped, TypeInv, SoundFault, FaultState, ExcStates, Phases,
         Histories, FaultTypeOK, Frame
<1> QED BY <1>1, <1>2, <1>3, StackCorrect, PTL DEF Spec
=============================================================================
