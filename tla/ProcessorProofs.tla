--------------------------- MODULE ProcessorProofs ---------------------------
(***************************************************************************)
(* Proofs about Processor for every set of exceptions, every table of      *)
(* priorities, every vector table and every size of the address space.     *)
(*                                                                         *)
(* After types and pending flags come nested exceptions, for every         *)
(* firmware that does not return from a handler with POP {.., pc}: the     *)
(* frames in memory and the active flags describe one chain of contexts,   *)
(* and a return restores the context that was interrupted.                 *)
(***************************************************************************)
EXTENDS Processor, ExceptionStatesProofs, SequenceTheorems

------------------------------------------------------------------------------
(* The stack pointer: what PushStack subtracts and aligns, PopStack gives     *)
(* back, for every size of the address space                                  *)

LEMMA AddressArithmetic ==
  ASSUME NEW a \in Address
  PROVE  /\ a \in Nat /\ a < AddrMod /\ a % 4 = 0
         /\ AddrMod \in Nat /\ AddrMod >= 64 /\ AddrMod % 8 = 0
BY AddrModAssumption DEF Address

LEMMA WrapAddress ==
  ASSUME NEW a \in Int, -AddrMod <= a, a < 2 * AddrMod, a % 4 = 0
  PROVE  Wrap(a) \in Address
<1>1. AddrMod \in Nat /\ AddrMod % 8 = 0
  BY AddrModAssumption
<1>2. Wrap(a) \in Int /\ 0 <= Wrap(a) /\ Wrap(a) < AddrMod
  BY <1>1 DEF Wrap
<1>3. Wrap(a) % 4 = 0
  BY <1>1 DEF Wrap
<1> QED
  BY <1>1, <1>2, <1>3 DEF Address

LEMMA PushedSPType ==
  ASSUME NEW sp \in Address, NEW f \in {0, 1}
  PROVE  PushedSP(sp, f) \in Address
<1> DEFINE low == Wrap(sp - FrameSize)
<1>1. low \in Address
  BY AddressArithmetic, WrapAddress DEF FrameSize
<1>2. Bit2(low) = 1 => low - 4 \in Address
  BY <1>1, AddressArithmetic DEF Bit2, Address
<1> QED
  BY <1>1, <1>2 DEF PushedSP

LEMMA PoppedSPType ==
  ASSUME NEW sp \in Address, NEW align \in {0, 1}, NEW f \in {0, 1}
  PROVE  PoppedSP(sp, align, f) \in Address
<1> DEFINE high == Wrap(sp + FrameSize)
<1>1. high \in Address
  BY AddressArithmetic, WrapAddress DEF FrameSize
<1>2. Bit2(high) = 0 => high + 4 \in Address
  BY <1>1, AddressArithmetic DEF Bit2, Address
<1> QED
  BY <1>1, <1>2 DEF PoppedSP

\* Exception return gives the stack pointer back that exception entry found,
\* aligned or not, with and without CCR.STKALIGN, across the wrap of addresses.
THEOREM StackPointerRoundTrip ==
  ASSUME NEW sp \in Address, NEW f \in {0, 1}
  PROVE  PoppedSP(PushedSP(sp, f), FramePtrAlign(sp, f), f) = sp
<1> DEFINE low == Wrap(sp - FrameSize)
<1>1. /\ sp \in Nat /\ sp < AddrMod /\ sp % 4 = 0
      /\ AddrMod \in Nat /\ AddrMod >= 64 /\ AddrMod % 8 = 0
  BY AddressArithmetic
<1>2. low \in Nat /\ Wrap(low + FrameSize) = sp
  BY <1>1 DEF Wrap, FrameSize
<1>3. Bit2(low) = Bit2(sp) /\ Bit2(sp) \in {0, 1}
  BY <1>1 DEF Bit2, Wrap, FrameSize
<1>4. Bit2(sp) = 1 => Wrap(low - 4 + FrameSize) = sp - 4 /\ Bit2(sp - 4) = 0
  BY <1>1, <1>2 DEF Bit2, Wrap, FrameSize
<1>5. CASE f = 0
  BY <1>1, <1>2, <1>5 DEF PoppedSP, PushedSP, FramePtrAlign
<1>6. CASE f = 1 /\ Bit2(sp) = 0
  BY <1>1, <1>2, <1>3, <1>6 DEF PoppedSP, PushedSP, FramePtrAlign
<1>7. CASE f = 1 /\ Bit2(sp) = 1
  BY <1>1, <1>2, <1>3, <1>4, <1>7 DEF PoppedSP, PushedSP, FramePtrAlign
<1> QED
  BY <1>3, <1>5, <1>6, <1>7

------------------------------------------------------------------------------
(* Types *)

LEMMA LocType ==
  /\ \A n \in {NoException} \cup Exc, o \in 0 .. LastOff : [ctx |-> n, off |-> o] \in Loc
  /\ LastOff \in Nat /\ MaxIT \in Nat
BY ProcessorAssumption DEF Loc

LEMMA ITAdvanceType ==
  ASSUME NEW c \in CpuState
  PROVE  ITAdvance(c) \in CpuState
BY ProcessorAssumption DEF ITAdvance, CpuState

LEMMA AdvanceInstrType ==
  ASSUME NEW c \in CpuState
  PROVE  AdvanceInstr(c) \in CpuState
BY ProcessorAssumption DEF AdvanceInstr, CpuState, Loc

LEMMA AdvanceType ==
  ASSUME NEW c \in CpuState
  PROVE  AdvancePcAndIt(c) \in CpuState
BY ITAdvanceType, AdvanceInstrType DEF AdvancePcAndIt

LEMMA MoveSPType ==
  ASSUME NEW c \in CpuState, NEW d \in {-4, 4}
  PROVE  MoveSP(c, d) \in CpuState
<1>1. \A a \in Address : Wrap(a + d) \in Address
  BY AddressArithmetic, WrapAddress
<1> QED
  BY <1>1 DEF MoveSP, CpuState

LEMMA PushStackType ==
  ASSUME NEW c \in CpuState
  PROVE  PushStack(c) \in CpuState
<1>1. StkAlign \in {0, 1}
  BY ProcessorAssumption
<1>2. ExcReturnValue(c) \in LRValue
  BY DEF ExcReturnValue, LRValue
<1>3. /\ PushedSP(c.psp, StkAlign) \in Address
      /\ PushedSP(c.msp, StkAlign) \in Address
  BY <1>1, PushedSPType DEF CpuState
<1> QED
  BY <1>2, <1>3 DEF PushStack, CpuState

LEMMA PushedFrameType ==
  ASSUME NEW c \in CpuState, NEW ret \in Loc
  PROVE  PushedFrame(c, ret) \in Frame
<1>1. StkAlign \in {0, 1}
  BY ProcessorAssumption
<1>2. EntryStack(c) \in {"main", "process"} /\ EntrySP(c) \in Address
  BY DEF EntryStack, EntrySP, CpuState
<1>3. PushedSP(EntrySP(c), StkAlign) \in Address
  BY <1>1, <1>2, PushedSPType
<1>4. FramePtrAlign(EntrySP(c), StkAlign) \in {0, 1}
  BY <1>2, AddressArithmetic DEF FramePtrAlign, Bit2
<1>5. [c EXCEPT !.pc = ret] \in CpuState
  BY DEF CpuState
<1> QED
  BY <1>2, <1>3, <1>4, <1>5 DEF PushedFrame, Frame, CpuState

LEMMA ExceptionTakenType ==
  ASSUME NEW c \in CpuState, NEW e \in Exc
  PROVE  ExceptionTaken(c, e) \in CpuState
<1>1. [ctx |-> e, off |-> 0] \in Loc /\ 0 \in 0 .. MaxIT
  BY LocType
<1> QED
  BY <1>1 DEF ExceptionTaken, CpuState

LEMMA PopStackType ==
  ASSUME NEW c \in CpuState, NEW f \in Frame, NEW r \in LRValue
  PROVE  PopStack(c, f, r) \in CpuState
<1>1. StkAlign \in {0, 1} /\ f.align \in {0, 1}
  BY ProcessorAssumption DEF Frame
<1>2. /\ PoppedSP(c.psp, f.align, StkAlign) \in Address
      /\ PoppedSP(c.msp, f.align, StkAlign) \in Address
  BY <1>1, PoppedSPType DEF CpuState
<1> QED
  BY <1>2 DEF PopStack, CpuState, Frame

LEMMA ExceptionReturnType ==
  ASSUME NEW c \in CpuState, NEW f \in Frame, NEW r \in LRValue
  PROVE  ExceptionReturn(c, f, r) \in CpuState
<1>1. [c EXCEPT !.mode  = IF r = ReturnHandler THEN "Handler" ELSE "Thread",
                !.spsel = IF r = ReturnProcess THEN 1 ELSE 0] \in CpuState
  BY DEF CpuState
<1> QED
  BY <1>1, PopStackType DEF ExceptionReturn

LEMMA InitTypes ==
  /\ ResetCpu \in CpuState
  /\ InitExceptionStates \in ExcStates
  /\ CountExact(InitExceptionStates)
<1>1. [ctx |-> NoException, off |-> 0] \in Loc /\ 0 \in 0 .. MaxIT
  BY LocType
<1>2. ResetCpu \in CpuState
  BY <1>1, ProcessorAssumption DEF ResetCpu, CpuState, LRValue
<1>3. Cardinality({}) = 0
  BY FS_EmptySet
<1> QED
  BY <1>2, <1>3 DEF InitExceptionStates, ExcStates, CountExact

LEMMA JunkType == Junk \subseteq Frame
<1>1. ResetCpu \in CpuState
  BY InitTypes
<1>2. 0 \in Address
  BY AddrModAssumption DEF Address
<1> QED
  BY <1>1, <1>2 DEF Junk, Frame

------------------------------------------------------------------------------
(* Type correctness, with the exact counter that it needs *)

Typed == TypeOK /\ PendingCountExact

LEMMA TypedExc == Typed <=> /\ exc \in ExcStates /\ CountExact(exc)
                            /\ cpu \in CpuState /\ frames \in Seq(Frame)
                            /\ phase \in Phases /\ local \in LocalState
                            /\ status \in Statuses
BY DEF Typed, TypeOK, PendingCountExact, ExcStates, CountExact

LEMMA EntryTypes ==
  ASSUME Typed, NEW instant, NEW e \in TakenAt(instant), NEW ret \in Loc,
         ExceptionEntry(e, ret)
  PROVE  /\ exc' \in ExcStates /\ CountExact(exc)'
         /\ cpu' \in CpuState /\ frames' \in Seq(Frame) /\ status' \in Statuses
<1>1. e \in Exc /\ e \in exc.pending
  BY TypedExc, TakesCandidate DEF TakenAt
<1>2. frames' \in Seq(Frame)
  <2>1. PushedFrame(cpu, ret) \in Frame
    BY TypedExc, PushedFrameType
  <2> QED
    BY <2>1, TypedExc DEF ExceptionEntry
<1>3. PushStack(cpu) \in CpuState
  BY TypedExc, PushStackType
<1>4. ClearPending(exc, e) \in ExcStates /\ CountExact(ClearPending(exc, e))
  BY <1>1, TypedExc, ClearPendingExact
<1>5. CASE Vector[e] = "unmapped"
  BY <1>2, <1>3, <1>4, <1>5 DEF ExceptionEntry, Statuses, CountExact
<1>6. CASE Vector[e] # "unmapped"
  <2>1. ExceptionTaken(PushStack(cpu), e) \in CpuState
    BY <1>1, <1>3, ExceptionTakenType
  <2>2. /\ SetActive(ClearPending(exc, e), e) \in ExcStates
        /\ CountExact(SetActive(ClearPending(exc, e), e))
    BY <1>1, <1>4, SetActiveExact
  <2> QED
    BY <1>2, <1>6, <2>1, <2>2, TypedExc DEF ExceptionEntry, CountExact
<1> QED
  BY <1>5, <1>6

\* Where Init and HostReset lead.
Restarted ==
  /\ exc = InitExceptionStates
  /\ \E psp \in Address, off \in 0 .. LastOff :
       cpu = [ResetCpu EXCEPT !.psp = psp, !.pc = [ResetCpu.pc EXCEPT !.off = off]]
  /\ frames = <<>> /\ phase = "PreFetch" /\ status = "running"
  /\ local \in LocalState

LEMMA RestartedCpu ==
  ASSUME Restarted
  PROVE  /\ cpu \in CpuState
         /\ cpu.ipsr = NoException /\ cpu.mode = "Thread" /\ cpu.thumb = 1
         /\ cpu.pc.ctx = NoException
<1>1. PICK psp \in Address, off \in 0 .. LastOff :
        cpu = [ResetCpu EXCEPT !.psp = psp, !.pc = [ResetCpu.pc EXCEPT !.off = off]]
  BY DEF Restarted
<1>2. [ResetCpu.pc EXCEPT !.off = off] \in Loc
  BY LocType DEF ResetCpu
<1>3. ResetCpu \in CpuState
  BY InitTypes
<1> QED
  BY <1>1, <1>2, <1>3 DEF ResetCpu, CpuState

LEMMA RestartedTyped == Restarted => Typed
<1> SUFFICES ASSUME Restarted PROVE Typed
  OBVIOUS
<1>1. cpu \in CpuState
  BY RestartedCpu
<1>2. exc \in ExcStates /\ CountExact(exc)
  BY InitTypes DEF Restarted
<1>3. /\ frames \in Seq(Frame) /\ phase \in Phases /\ status \in Statuses
      /\ local \in LocalState
  BY DEF Restarted, Phases, Statuses
<1> QED
  BY <1>1, <1>2, <1>3, TypedExc

LEMMA InitRestarted == Init => Restarted
<1> SUFFICES ASSUME Init PROVE Restarted
  OBVIOUS
<1>1. [pc |-> ResetCpu.pc, raw |-> "none", it |-> 0] \in LocalState
  BY InitTypes, ProcessorAssumption DEF LocalState, CpuState
<1>2. ResetCpu = [ResetCpu EXCEPT !.psp = StackTop, !.pc = [ResetCpu.pc EXCEPT !.off = 0]]
  <2>1. ResetCpu.pc = [ResetCpu.pc EXCEPT !.off = 0] /\ ResetCpu.psp = StackTop
    BY DEF ResetCpu
  <2> QED
    BY <2>1, InitTypes DEF CpuState
<1>3. StackTop \in Address /\ 0 \in 0 .. LastOff
  BY ProcessorAssumption, LocType
<1> QED
  BY <1>1, <1>2, <1>3 DEF Init, Restarted

LEMMA HostResetRestarts == Typed /\ HostReset => Restarted'
<1> SUFFICES ASSUME Typed, HostReset PROVE Restarted'
  OBVIOUS
<1>1. cpu.psp \in Address /\ local' \in LocalState
  BY TypedExc DEF HostReset, CpuState
<1> QED
  BY <1>1 DEF HostReset, Restarted

LEMMA InitTyped == Init => Typed
BY InitRestarted, RestartedTyped

LEMMA HostResetTyped == Typed /\ HostReset => Typed'
<1>1. Restarted' => Typed'
  BY RestartedTyped, PTL
<1> QED
  BY <1>1, HostResetRestarts

LEMMA ChecksTyped ==
  ASSUME Typed,
         PreFetchEntry \/ PreFetchNone \/ PostFetchEntry \/ PostFetchNone
           \/ PostExecEntry \/ PostExecNone
  PROVE  Typed'
<1> USE DEF Phases
<1>1. cpu.pc \in Loc /\ cpu.it \in 0 .. MaxIT /\ local.pc \in Loc
  BY TypedExc DEF CpuState, LocalState
<1>2. CASE PreFetchEntry
  <2>1. PICK e \in TakenAt("PreFetch") : ExceptionEntry(e, cpu.pc)
    BY <1>2 DEF PreFetchEntry
  <2>2. /\ exc' \in ExcStates /\ CountExact(exc)'
        /\ cpu' \in CpuState /\ frames' \in Seq(Frame) /\ status' \in Statuses
    BY <1>1, <2>1, EntryTypes
  <2>3. local' \in LocalState
    BY <1>2, <2>2 DEF PreFetchEntry, LocalState, CpuState
  <2> QED
    BY <1>2, <2>2, <2>3, TypedExc DEF PreFetchEntry, Typed, TypeOK,
       PendingCountExact, ExcStates, CountExact
<1>3. CASE PreFetchNone
  <2>1. local' \in LocalState
    BY <1>1, <1>3 DEF PreFetchNone, LocalState
  <2> QED
    BY <1>3, <2>1 DEF PreFetchNone, Typed, TypeOK, PendingCountExact
<1>4. CASE PostFetchEntry
  <2>1. PICK e \in TakenAt("PostFetch") : ExceptionEntry(e, local.pc)
    BY <1>4 DEF PostFetchEntry
  <2>2. /\ exc' \in ExcStates /\ CountExact(exc)'
        /\ cpu' \in CpuState /\ frames' \in Seq(Frame) /\ status' \in Statuses
    BY <1>1, <2>1, EntryTypes
  <2> QED
    BY <1>4, <2>2 DEF PostFetchEntry, Typed, TypeOK,
       PendingCountExact, ExcStates, CountExact
<1>5. CASE PostFetchNone
  BY <1>5 DEF PostFetchNone, Typed, TypeOK, PendingCountExact
<1>6. CASE PostExecEntry
  <2>1. PICK e \in TakenAt("PostExec") : ExceptionEntry(e, local.pc)
    BY <1>6 DEF PostExecEntry
  <2>2. /\ exc' \in ExcStates /\ CountExact(exc)'
        /\ cpu' \in CpuState /\ frames' \in Seq(Frame) /\ status' \in Statuses
    BY <1>1, <2>1, EntryTypes
  <2> QED
    BY <1>6, <2>2 DEF PostExecEntry, Typed, TypeOK,
       PendingCountExact, ExcStates, CountExact
<1>7. CASE PostExecNone
  BY <1>7 DEF PostExecNone, Typed, TypeOK, PendingCountExact
<1> QED
  BY <1>2, <1>3, <1>4, <1>5, <1>6, <1>7

LEMMA FetchTyped ==
  ASSUME Typed, FetchOk \/ FetchFault \/ FetchInvalidState
  PROVE  Typed'
<1>1. BusFault \in Exc /\ UsageFault \in Exc
  BY ExcAssumption
<1>2. exc' \in ExcStates /\ CountExact(exc)'
  BY <1>1, TypedExc, SetPendingExact
     DEF FetchOk, FetchFault, FetchInvalidState, CountExact
<1>3. \A raw \in {"none", "ok", "zero"} : [local EXCEPT !.raw = raw] \in LocalState
  BY TypedExc DEF LocalState
<1>4. \E raw \in {"none", "ok", "zero"} : Fetched(raw)
  BY DEF FetchOk, FetchFault, FetchInvalidState
<1> QED
  BY <1>2, <1>3, <1>4 DEF Fetched, Typed, TypeOK, PendingCountExact, ExcStates,
     CountExact, Phases

\* An instruction that retires with a well-formed state keeps the types.
LEMMA RetireTyped ==
  ASSUME Typed, NEW c \in CpuState, Retire(c), frames' \in Seq(Frame),
         exc' \in ExcStates, CountExact(exc)'
  PROVE  Typed'
BY DEF Retire, Typed, TypeOK, PendingCountExact, ExcStates, CountExact, Phases

LEMMA RaisingTyped ==
  ASSUME Typed, ExecSvc \/ ExecBkpt \/ ExecDataFault \/ ExecDivByZero
  PROVE  Typed'
<1>1. {HardFault, BusFault, UsageFault, SVCall} \subseteq Exc
  BY ExcAssumption
<1>2. exc' \in ExcStates /\ CountExact(exc)'
  BY <1>1, TypedExc, SetPendingExact
     DEF ExecSvc, ExecBkpt, ExecDataFault, ExecDivByZero, CountExact
<1>3. Retire(AdvancePcAndIt(cpu)) /\ frames' = frames
  BY DEF ExecSvc, ExecBkpt, ExecDataFault, ExecDivByZero
<1> QED
  BY <1>2, <1>3, TypedExc, AdvanceType, RetireTyped

LEMMA QuietTyped ==
  ASSUME Typed,
         ExecPlain \/ ExecBranch \/ ExecIt \/ ExecBxToArm \/ ExecPush \/ ExecPop
           \/ ExecMsrControl
  PROVE  Typed'
<1>1. frames' \in Seq(Frame) /\ exc' \in ExcStates /\ CountExact(exc)'
  BY TypedExc DEF ExecPlain, ExecBranch, ExecIt, ExecBxToArm, ExecPush, ExecPop,
     ExecMsrControl, CountExact
<1>2. cpu \in CpuState
  BY TypedExc
<1>3. \E c \in CpuState : Retire(c)
  <2>1. CASE ExecPlain
    BY <1>2, <2>1, AdvanceType DEF ExecPlain
  <2>2. CASE ExecBranch
    <3>1. PICK off \in 0 .. LastOff : Retire(ITAdvance([cpu EXCEPT !.pc.off = off]))
      BY <2>2 DEF ExecBranch
    <3>2. [cpu EXCEPT !.pc.off = off] \in CpuState
      BY <1>2 DEF CpuState, Loc
    <3> QED
      BY <3>1, <3>2, ITAdvanceType
  <2>3. CASE ExecIt
    <3>1. PICK n \in 1 .. MaxIT : Retire(AdvanceInstr([cpu EXCEPT !.it = n]))
      BY <2>3 DEF ExecIt
    <3>2. [cpu EXCEPT !.it = n] \in CpuState
      BY <1>2, ProcessorAssumption DEF CpuState
    <3> QED
      BY <3>1, <3>2, AdvanceInstrType
  <2>4. CASE ExecBxToArm
    <3>1. PICK off \in 0 .. LastOff :
            Retire(ITAdvance([cpu EXCEPT !.thumb = 0, !.pc.off = off]))
      BY <2>4 DEF ExecBxToArm
    <3>2. [cpu EXCEPT !.thumb = 0, !.pc.off = off] \in CpuState
      BY <1>2 DEF CpuState, Loc
    <3> QED
      BY <3>1, <3>2, ITAdvanceType
  <2>5. CASE ExecPush
    BY <1>2, <2>5, MoveSPType, AdvanceType DEF ExecPush
  <2>6. CASE ExecPop
    BY <1>2, <2>6, MoveSPType, AdvanceType DEF ExecPop
  <2>7. CASE ExecMsrControl
    <3>1. PICK bit \in {0, 1} :
            Retire(AdvancePcAndIt(
              IF cpu.mode = "Thread" THEN [cpu EXCEPT !.spsel = bit] ELSE cpu))
      BY <2>7 DEF ExecMsrControl
    <3>2. [cpu EXCEPT !.spsel = bit] \in CpuState
      BY <1>2 DEF CpuState
    <3> QED
      BY <1>2, <3>1, <3>2, AdvanceType
  <2> QED
    BY <2>1, <2>2, <2>3, <2>4, <2>5, <2>6, <2>7
<1> QED
  BY <1>1, <1>3, RetireTyped

LEMMA FrontType ==
  ASSUME NEW S, NEW q \in Seq(S)
  PROVE  Front(q) \in Seq(S)
BY DEF Front

LEMMA FrontProperties ==
  ASSUME NEW q \in Seq(Frame), q # <<>>
  PROVE  /\ Len(q) \in Nat \ {0}
         /\ Front(q) \in Seq(Frame)
         /\ Len(Front(q)) = Len(q) - 1
         /\ \A k \in 1 .. Len(q) - 1 : Front(q)[k] = q[k]
<1>1. Len(q) \in Nat \ {0}
  OBVIOUS
<1>2. PICK m \in Nat : m = Len(q) - 1
  BY <1>1
<1>3. \A i \in 1 .. m : q[i] \in Frame
  BY <1>1, <1>2
<1>4. 1 \in Int /\ m \in Int
  BY <1>2
<1>5. /\ SubSeq(q, 1, m) \in Seq(Frame)
      /\ Len(SubSeq(q, 1, m)) = IF 1 <= m THEN m - 1 + 1 ELSE 0
      /\ \A i \in 1 .. m - 1 + 1 : SubSeq(q, 1, m)[i] = q[1 + i - 1]
  BY <1>3, <1>4, SubSeqProperties
<1>6. Front(q) = SubSeq(q, 1, m)
  BY <1>2 DEF Front
<1> QED
  BY <1>1, <1>2, <1>5, <1>6

LEMMA FrameAtType ==
  ASSUME Typed, NEW stack, NEW sp, NEW f \in FrameAt(stack, sp)
  PROVE  f \in Frame
<1>1. frames # <<>> => frames[Len(frames)] \in Frame
  BY TypedExc
<1> QED
  BY <1>1, JunkType DEF FrameAt

LEMMA FixUpTyped ==
  ASSUME Typed, ExecFixUp
  PROVE  Typed'
<1> DEFINE top  == frames[Len(frames)]
           next == AdvanceInstr(top).pc
           new  == [top EXCEPT !.pc = next, !.thumb = 1,
                               !.ctx.pc = next, !.ctx.thumb = 1]
<1>1. top \in Frame
  BY TypedExc DEF ExecFixUp
<1>2. next \in Loc
  BY <1>1, ProcessorAssumption DEF AdvanceInstr, Frame, Loc
<1>3. new \in Frame
  BY <1>1, <1>2 DEF Frame, CpuState
<1>4. frames' = [frames EXCEPT ![Len(frames)] = new]
  BY DEF ExecFixUp
<1>5. frames' \in Seq(Frame)
  <2>1. frames \in Seq(Frame) /\ Len(frames) \in 1 .. Len(frames)
    BY TypedExc DEF ExecFixUp
  <2> QED
    BY <1>3, <1>4, <2>1, ExceptSeq
<1>6. Retire(AdvancePcAndIt(cpu)) /\ exc' = exc
  BY DEF ExecFixUp
<1> QED
  BY <1>5, <1>6, TypedExc, AdvanceType, RetireTyped DEF CountExact

LEMMA ReturningTyped ==
  ASSUME Typed, NEW f \in Frame, NEW fin \in CpuState, Returning(f, fin)
  PROVE  Typed'
<1>1. ExceptionReturn(cpu, f, cpu.lr) \in CpuState
  BY TypedExc, ExceptionReturnType DEF CpuState
<1>2. exc' \in ExcStates /\ CountExact(exc)'
  BY TypedExc, ClearActiveExact DEF Returning, CountExact
<1>3. frames' \in Seq(Frame)
  BY TypedExc, FrontType DEF Returning
<1> QED
  BY <1>1, <1>2, <1>3 DEF Returning, Typed, TypeOK, PendingCountExact, ExcStates,
     CountExact, Phases, Statuses

LEMMA BxReturnTyped ==
  ASSUME Typed, ExecBxReturn
  PROVE  Typed'
<1>1. PICK f \in FrameAt(ReturnStack(cpu.lr), ReturnSP(cpu, cpu.lr)) :
        Returning(f, AfterBxReturn(f))
  BY DEF ExecBxReturn
<1>2. f \in Frame
  BY FrameAtType
<1>3. AfterBxReturn(f) \in CpuState
  BY <1>2, TypedExc, ExceptionReturnType, ITAdvanceType DEF AfterBxReturn, CpuState
<1> QED
  BY <1>1, <1>2, <1>3, ReturningTyped

\* The words that a context has pushed are counted modulo the address space.
LEMMA PushedWordsType ==
  ASSUME Typed
  PROVE  /\ BaseSP \in Address
         /\ PushedWords \in Nat
         /\ Wrap(BaseSP - cpu.msp) = 4 * PushedWords
<1>1. cpu.msp \in Address
  BY TypedExc DEF CpuState
<1>2. BaseSP \in Address
  <2>1. frames # <<>> => frames[Len(frames)] \in Frame
    BY TypedExc
  <2> QED
    BY <2>1, ProcessorAssumption DEF BaseSP, Frame, CpuState
<1>3. Wrap(BaseSP - cpu.msp) \in Address
  BY <1>1, <1>2, AddressArithmetic, WrapAddress
<1> QED
  BY <1>2, <1>3, AddressArithmetic DEF PushedWords

LEMMA PopReturnTyped ==
  ASSUME Typed, ExecPopReturn
  PROVE  Typed'
<1> DEFINE n == Wrap(cpu.msp + 4 * PushedWords)
<1>1. PICK f \in FrameAt(ReturnStack(cpu.lr), ReturnSP(cpu, cpu.lr)) :
        Returning(f, AfterPopReturn(f))
  BY DEF ExecPopReturn
<1>2. f \in Frame
  BY FrameAtType
<1>3. AfterBxReturn(f) \in CpuState
  BY <1>2, TypedExc, ExceptionReturnType, ITAdvanceType DEF AfterBxReturn, CpuState
<1>4. n \in Address
  <2>1. cpu.msp \in Address
    BY TypedExc DEF CpuState
  <2>2. 4 * PushedWords \in Address
    BY <2>1, PushedWordsType, AddressArithmetic, WrapAddress
  <2> QED
    BY <2>1, <2>2, AddressArithmetic, WrapAddress
<1>5. AfterPopReturn(f) \in CpuState
  BY <1>3, <1>4 DEF AfterPopReturn, CpuState
<1> QED
  BY <1>1, <1>2, <1>5, ReturningTyped

LEMMA LoopTyped ==
  ASSUME Typed, ExecExit \/ ExecErrorExit \/ SysTickStep \/ ExecAgain
  PROVE  Typed'
<1> USE DEF Phases, Statuses
<1>1. CASE ExecExit
  BY <1>1, TypedExc, AdvanceType
     DEF ExecExit, Leaves, Typed, TypeOK, PendingCountExact
<1>2. CASE ExecErrorExit
  BY <1>2, TypedExc, AdvanceType
     DEF ExecErrorExit, Leaves, Typed, TypeOK, PendingCountExact
<1>3. CASE SysTickStep
  <2>1. exc' \in ExcStates /\ CountExact(exc)'
    BY <1>3, ExcAssumption, TypedExc, SetPendingExact DEF SysTickStep, CountExact
  <2> QED
    BY <1>3, <2>1 DEF SysTickStep, Typed, TypeOK, PendingCountExact, ExcStates, CountExact
<1>4. CASE ExecAgain
  BY <1>4 DEF ExecAgain, Typed, TypeOK, PendingCountExact
<1> QED
  BY <1>1, <1>2, <1>3, <1>4

LEMMA NextTyped == Typed /\ [Next]_vars => Typed'
<1> SUFFICES ASSUME Typed, [Next]_vars PROVE Typed'
  OBVIOUS
<1>1. CASE Execute
  BY <1>1, RaisingTyped, QuietTyped, FixUpTyped, BxReturnTyped, PopReturnTyped,
     LoopTyped DEF Execute
<1>2. CASE Next /\ ~Execute
  BY <1>2, ChecksTyped, FetchTyped, LoopTyped, HostResetTyped DEF Next, Step
<1>3. CASE UNCHANGED vars
  BY <1>3 DEF vars, Typed, TypeOK, PendingCountExact
<1> QED
  BY <1>1, <1>2, <1>3

\* TypeOK: whatever the firmware, the vector table and the frames it returns
\* to, every variable keeps its type.
THEOREM TypeCorrect == Spec => []TypeOK
<1>1. Typed => TypeOK
  BY DEF Typed
<1> QED
  BY <1>1, InitTyped, NextTyped, PTL DEF Spec

\* PendingCountExact: the counter behind the early return of CheckExceptions
\* always is the number of pending exceptions.
THEOREM PendingCountCorrect == Spec => []PendingCountExact
<1>1. Typed => PendingCountExact
  BY DEF Typed
<1> QED
  BY <1>1, InitTyped, NextTyped, PTL DEF Spec
\* Only an exception entry takes a pending flag away, and it is the entry of
\* that exception.
LEMMA EntryTakesOne ==
  ASSUME Typed, NEW instant, NEW e \in TakenAt(instant), NEW ret,
         ExceptionEntry(e, ret), NEW f \in exc.pending \ exc'.pending
  PROVE  f \in exc'.active \ exc.active \/ status' = "panic"
<1>1. e \notin exc.active
  BY TypedExc, TakesCandidate DEF TakenAt
<1>2. f = e
  BY DEF ExceptionEntry, SetActive, ClearPending
<1> QED
  BY <1>1, <1>2 DEF ExceptionEntry, SetActive, ClearPending

LEMMA OthersKeepPending ==
  ASSUME [Next]_vars, ~PreFetchEntry, ~PostFetchEntry, ~PostExecEntry, ~HostReset
  PROVE  exc.pending \subseteq exc'.pending
<1>1. CASE Execute
  <2>1. CASE ExecSvc \/ ExecBkpt \/ ExecDataFault \/ ExecDivByZero
    BY <2>1 DEF ExecSvc, ExecBkpt, ExecDataFault, ExecDivByZero, SetPending
  <2>2. CASE ExecBxReturn \/ ExecPopReturn
    BY <2>2 DEF ExecBxReturn, ExecPopReturn, Returning, ClearActive
  <2>3. CASE ExecPlain \/ ExecBranch \/ ExecIt \/ ExecBxToArm \/ ExecPush \/ ExecPop
               \/ ExecMsrControl \/ ExecFixUp \/ ExecExit \/ ExecErrorExit
    <3>1. exc' = exc
      BY <2>3 DEF ExecPlain, ExecBranch, ExecIt, ExecBxToArm, ExecPush, ExecPop,
         ExecMsrControl, ExecFixUp, ExecExit, ExecErrorExit, Leaves
    <3> QED
      BY <3>1
  <2> QED
    BY <1>1, <2>1, <2>2, <2>3 DEF Execute
<1>2. CASE Next /\ ~Execute
  BY <1>2 DEF Next, Step, PreFetchNone, FetchOk, FetchFault, FetchInvalidState,
     PostFetchNone, PostExecNone, SysTickStep, ExecAgain, SetPending
<1>3. CASE UNCHANGED vars
  BY <1>3 DEF vars
<1> QED
  BY <1>1, <1>2, <1>3

\* NoLostPending: an exception that was raised stays pending until it is taken,
\* whatever else is raised, taken or returned from meanwhile.
THEOREM NothingLost == Spec => NoLostPending
<1>1. Typed /\ [Next]_vars =>
        [status = "running" => \A e \in exc.pending \ exc'.pending :
           e \in exc'.active \ exc.active \/ status' = "panic"]_vars
  <2> SUFFICES ASSUME Typed, Next, status = "running",
                      NEW f \in exc.pending \ exc'.pending
               PROVE  f \in exc'.active \ exc.active \/ status' = "panic"
    OBVIOUS
  <2>1. CASE PreFetchEntry
    BY <2>1, EntryTakesOne DEF PreFetchEntry
  <2>2. CASE PostFetchEntry
    BY <2>2, EntryTakesOne DEF PostFetchEntry
  <2>3. CASE PostExecEntry
    BY <2>3, EntryTakesOne DEF PostExecEntry
  <2>4. ~HostReset
    BY DEF HostReset
  <2> QED
    BY <2>1, <2>2, <2>3, <2>4, OthersKeepPending
<1> QED
  BY <1>1, InitTyped, NextTyped, PTL DEF Spec, NoLostPending

------------------------------------------------------------------------------
(* Exceptions nest no deeper than there are active flags, however handlers    *)
(* return: an entry needs an exception that is not active and makes it so, a  *)
(* return removes one frame and at most one flag.                             *)

NestsBounded == Depth <= Cardinality(exc.active)

LEMMA DepthType ==
  ASSUME Typed
  PROVE  /\ Depth \in Nat
         /\ exc.active \in SUBSET Exc
         /\ IsFiniteSet(exc.active)
         /\ Cardinality(exc.active) \in Nat
<1>1. exc.active \in SUBSET Exc /\ frames \in Seq(Frame)
  BY TypedExc DEF ExcStates
<1>2. IsFiniteSet(exc.active)
  BY <1>1, SubsetsFinite, Zenon
<1>3. Cardinality(exc.active) \in Nat
  BY <1>2, FS_CardinalityType, Zenon
<1>4. Depth \in Nat
  BY <1>1 DEF Depth
<1> QED
  BY <1>1, <1>2, <1>3, <1>4

LEMMA EntryNests ==
  ASSUME Typed, NestsBounded, status = "running", NEW instant,
         NEW e \in TakenAt(instant), NEW ret \in Loc, ExceptionEntry(e, ret)
  PROVE  NestingBounded'
<1>1. CASE Vector[e] = "unmapped"
  BY <1>1 DEF ExceptionEntry, NestingBounded
<1>2. CASE Vector[e] # "unmapped"
  <2>1. e \notin exc.active
    BY TypedExc, TakesCandidate DEF TakenAt
  <2>2. exc'.active = exc.active \cup {e}
    BY <1>2 DEF ExceptionEntry, SetActive, ClearPending
  <2>3. Cardinality(exc'.active) = Cardinality(exc.active) + 1
    BY <2>1, <2>2, DepthType, FS_AddElement, Zenon
  <2>4. Depth' = Depth + 1
    <3>1. frames \in Seq(Frame) /\ PushedFrame(cpu, ret) \in Frame
      BY TypedExc, PushedFrameType
    <3> QED
      BY <3>1 DEF ExceptionEntry, Depth
  <2> QED
    BY <2>3, <2>4, DepthType DEF NestsBounded, NestingBounded
<1> QED
  BY <1>1, <1>2

LEMMA ReturningNests ==
  ASSUME Typed, NestsBounded, NEW f, NEW fin, Returning(f, fin)
  PROVE  NestingBounded'
<1> DEFINE left == exc.active \ {cpu.ipsr}
<1>1. exc'.active = left
  BY DEF Returning, ClearActive
<1>2. Cardinality(left) = IF cpu.ipsr \in exc.active
                          THEN Cardinality(exc.active) - 1 ELSE Cardinality(exc.active)
  BY DepthType, FS_RemoveElement, Zenon
<1>3. left \in SUBSET Exc
  BY DepthType
<1>4. Cardinality(left) \in Nat
  BY <1>3, SubsetsFinite
<1>5. Depth' = IF Depth = 0 THEN 0 ELSE Depth - 1
  <2>1. frames \in Seq(Frame) /\ frames' = Front(frames)
    BY TypedExc DEF Returning
  <2>2. CASE frames = <<>>
    BY <2>1, <2>2 DEF Front, Depth
  <2>3. CASE frames # <<>>
    BY <2>1, <2>3, FrontProperties DEF Depth
  <2> QED
    BY <2>2, <2>3
<1>6. Depth' <= Cardinality(left)
  BY <1>2, <1>4, <1>5, DepthType DEF NestsBounded
<1> QED
  BY <1>1, <1>6 DEF NestingBounded

\* Only entries, returns and the host's reset change the frames or the flags.
LEMMA OthersKeepNesting ==
  ASSUME Typed, [Next]_vars, ~PreFetchEntry, ~PostFetchEntry, ~PostExecEntry,
         ~ExecBxReturn, ~ExecPopReturn, ~HostReset
  PROVE  exc'.active = exc.active /\ Depth' = Depth
<1>1. CASE ExecFixUp
  <2>1. frames \in Seq(Frame)
    BY TypedExc
  <2> QED
    BY <1>1, <2>1 DEF ExecFixUp, Depth
<1>2. CASE Execute /\ ~ExecFixUp
  <2>1. CASE ExecSvc \/ ExecBkpt \/ ExecDataFault \/ ExecDivByZero
    BY <2>1 DEF ExecSvc, ExecBkpt, ExecDataFault, ExecDivByZero, SetPending, Depth
  <2>2. CASE ExecPlain \/ ExecBranch \/ ExecIt \/ ExecBxToArm
    <3>1. UNCHANGED <<exc, frames>>
      BY <2>2, Zenon DEF ExecPlain, ExecBranch, ExecIt, ExecBxToArm
    <3> QED
      BY <3>1 DEF Depth
  <2>3. CASE ExecPush \/ ExecPop \/ ExecMsrControl \/ ExecExit \/ ExecErrorExit
    BY <2>3 DEF ExecPush, ExecPop, ExecMsrControl, ExecExit, ExecErrorExit, Leaves, Depth
  <2> QED
    BY <1>2, <2>1, <2>2, <2>3 DEF Execute
<1>3. CASE Next /\ ~Execute
  BY <1>3 DEF Next, Step, PreFetchNone, FetchOk, FetchFault, FetchInvalidState, Fetched,
     PostFetchNone, PostExecNone, SysTickStep, ExecAgain, SetPending, Depth
<1>4. CASE UNCHANGED vars
  BY <1>4 DEF vars, Depth
<1> QED
  BY <1>1, <1>2, <1>3, <1>4

\* What was given up stays given up until the host resets the machine.
LEMMA PanicStays ==
  ASSUME [Next]_vars, status = "panic", ~HostReset
  PROVE  status' = "panic"
<1>1. CASE Next
  BY <1>1 DEF Next, Step, PreFetchEntry, PreFetchNone, FetchOk, FetchFault,
     FetchInvalidState, PostFetchEntry, PostFetchNone, Execute, ExecPlain, ExecBranch,
     ExecIt, ExecSvc, ExecBkpt, ExecDataFault, ExecDivByZero, ExecBxToArm, ExecPush,
     ExecPop, ExecMsrControl, ExecFixUp, ExecBxReturn, ExecPopReturn, ExecExit,
     ExecErrorExit, Executes, PostExecEntry, PostExecNone, SysTickStep, ExecAgain, At
<1>2. CASE UNCHANGED vars
  BY <1>2 DEF vars
<1> QED
  BY <1>1, <1>2

LEMMA RestartedNests == Restarted => NestingBounded
<1>1. Cardinality({}) = 0
  BY FS_EmptySet
<1> QED
  BY <1>1 DEF Restarted, NestingBounded, Depth, InitExceptionStates

LEMMA NextNests == Typed /\ NestingBounded /\ [Next]_vars => NestingBounded'
<1> SUFFICES ASSUME Typed, NestingBounded, [Next]_vars PROVE NestingBounded'
  OBVIOUS
<1>1. cpu.pc \in Loc /\ local.pc \in Loc
  BY TypedExc DEF CpuState, LocalState
<1>2. CASE HostReset
  <2>1. Restarted' => NestingBounded'
    BY RestartedNests, PTL
  <2> QED
    BY <1>2, <2>1, HostResetRestarts
<1>3. CASE status = "panic" /\ ~HostReset
  BY <1>3, PanicStays DEF NestingBounded
<1>4. CASE status # "panic" /\ ~HostReset
  <2>1. NestsBounded
    BY <1>4 DEF NestingBounded, NestsBounded
  <2>2. CASE PreFetchEntry
    BY <1>1, <2>1, <2>2, EntryNests DEF PreFetchEntry, At
  <2>3. CASE PostFetchEntry
    BY <1>1, <2>1, <2>3, EntryNests DEF PostFetchEntry, At
  <2>4. CASE PostExecEntry
    BY <1>1, <2>1, <2>4, EntryNests DEF PostExecEntry, At
  <2>5. CASE ExecBxReturn
    BY <2>1, <2>5, ReturningNests DEF ExecBxReturn
  <2>6. CASE ExecPopReturn
    BY <2>1, <2>6, ReturningNests DEF ExecPopReturn
  <2>7. CASE ~(PreFetchEntry \/ PostFetchEntry \/ PostExecEntry \/ ExecBxReturn
               \/ ExecPopReturn)
    BY <1>4, <2>1, <2>7, OthersKeepNesting DEF NestsBounded, NestingBounded
  <2> QED
    BY <2>2, <2>3, <2>4, <2>5, <2>6, <2>7
<1> QED
  BY <1>2, <1>3, <1>4

\* NestingBounded: whatever the handlers return with, and whichever vectors are
\* missing, the entries that no return has undone never outnumber the active
\* flags.  Frames do not pile up on the stack.
THEOREM NestingBoundedCorrect == Spec => []NestingBounded
<1>1. Init => NestingBounded
  BY InitRestarted, RestartedNests
<1> QED
  BY <1>1, InitTyped, NextTyped, NextNests, PTL DEF Spec

------------------------------------------------------------------------------
(* Asynchronous exceptions are served in time.  The checks are exhaustive:  *)
(* after an entry, and after a check before the fetch, no candidate is      *)
(* left, and what a check after the execution leaves is not a fault.        *)

RaisedByCode == {HardFault, BusFault, UsageFault, SVCall, SysTick}

Pending == Candidates(exc, cpu.ipsr)

SelectedAsync ==
  \A e \in Pending : Selected(exc, cpu.ipsr, e) => e \in {SVCall, SysTick}

Served ==
  /\ exc.pending \subseteq RaisedByCode
  /\ status # "panic" =>
       /\ phase \in {"Fetch", "Execute"} => Pending = {}
       /\ phase = "PostFetch" => \E f \in {BusFault, UsageFault} : Pending \subseteq {f}
       /\ phase \in {"Tick", "PreFetch"} => SelectedAsync

LEMMA PriorityIsInt ==
  /\ \A e \in RaisedByCode : e \in Exc /\ Prio[e] \in Int
  /\ \A e \in Exc : Prio[e] \in Int /\ e \in Int /\ e # NoException
  /\ \A n \in {NoException} \cup Exc : ExecutingPriority(n) \in Int
<1>1. \A e \in Exc : Prio[e] \in Int /\ e \in Int /\ e # NoException
  BY ExcAssumption, PrioAssumption DEF NoException
<1>2. RaisedByCode \subseteq Exc
  BY ExcAssumption DEF RaisedByCode
<1>3. \A n \in {NoException} \cup Exc : ExecutingPriority(n) \in Int
  BY <1>1 DEF ExecutingPriority
<1> QED
  BY <1>1, <1>2, <1>3

LEMMA CountNonzero ==
  ASSUME Typed, NEW e \in exc.pending
  PROVE  exc.count # 0
<1>1. exc.pending \in SUBSET Exc
  BY TypedExc DEF ExcStates
<1>2. IsFiniteSet(exc.pending)
  BY <1>1, SubsetsFinite
<1>3. Cardinality(exc.pending) = 0 <=> exc.pending = {}
  BY <1>2, FS_EmptySet, Zenon
<1> QED
  BY <1>3 DEF Typed, PendingCountExact

\* A set of exceptions with a most urgent one keeps one when an exception joins it.
LEMMA MostUrgentOfMore ==
  ASSUME NEW S \in SUBSET RaisedByCode, NEW x \in RaisedByCode,
         S # {} => \E e \in S : \A f \in S : Prio[e] <= Prio[f]
  PROVE  \E e \in S \cup {x} : \A f \in S \cup {x} : Prio[e] <= Prio[f]
<1>0. \A f \in S \cup {x} : Prio[f] \in Int
  BY PriorityIsInt
<1>1. CASE S = {}
  <2>1. Prio[x] <= Prio[x]
    BY <1>0
  <2> QED
    BY <1>1, <2>1
<1>2. CASE S # {}
  <2>1. PICK e \in S : \A f \in S : Prio[e] <= Prio[f]
    BY <1>2
  <2>2. CASE Prio[e] <= Prio[x]
    BY <2>1, <2>2
  <2>3. CASE ~(Prio[e] <= Prio[x])
    <3>1. \A f \in S \cup {x} : Prio[x] <= Prio[f]
      BY <1>0, <2>1, <2>3
    <3> QED
      BY <3>1
  <2> QED
    BY <2>2, <2>3
<1> QED
  BY <1>1, <1>2

\* Every set of exceptions that the code raises has a most urgent one.
LEMMA MostUrgentExists ==
  ASSUME NEW C \in SUBSET RaisedByCode, C # {}
  PROVE  \E e \in C : \A f \in C : Prio[e] <= Prio[f]
<1> DEFINE HasMost(S) == S # {} => \E e \in S : \A f \in S : Prio[e] <= Prio[f]
<1>1. ASSUME NEW S \in SUBSET C, HasMost(S), NEW x \in RaisedByCode
      PROVE  HasMost(S \cup ({x} \cap C))
  <2>1. CASE x \in C
    <3>1. S \cup ({x} \cap C) = S \cup {x} /\ S \in SUBSET RaisedByCode
      BY <2>1
    <3>2. \E e \in S \cup {x} : \A f \in S \cup {x} : Prio[e] <= Prio[f]
      BY <1>1, <3>1, MostUrgentOfMore
    <3> QED
      BY <3>1, <3>2
  <2>2. CASE x \notin C
    <3>1. S \cup ({x} \cap C) = S
      BY <2>2
    <3> QED
      BY <1>1, <3>1
  <2> QED
    BY <2>1, <2>2
<1> DEFINE C1 == {} \cup ({HardFault} \cap C)
           C2 == C1 \cup ({BusFault} \cap C)
           C3 == C2 \cup ({UsageFault} \cap C)
           C4 == C3 \cup ({SVCall} \cap C)
           C5 == C4 \cup ({SysTick} \cap C)
<1>2. C5 = C
  BY DEF RaisedByCode
<1>3. /\ HardFault \in RaisedByCode /\ BusFault \in RaisedByCode /\ UsageFault \in RaisedByCode
      /\ SVCall \in RaisedByCode /\ SysTick \in RaisedByCode
  BY DEF RaisedByCode
<1>4. /\ C1 \in SUBSET C /\ C2 \in SUBSET C /\ C3 \in SUBSET C /\ C4 \in SUBSET C
      /\ {} \in SUBSET C /\ HasMost({})
  OBVIOUS
<1> HIDE DEF HasMost
<1>5. HasMost(C1)
  BY <1>1, <1>3, <1>4
<1> HIDE DEF C1
<1>6. HasMost(C2)
  BY <1>1, <1>3, <1>4, <1>5
<1> HIDE DEF C2
<1>7. HasMost(C3)
  BY <1>1, <1>3, <1>4, <1>6
<1> HIDE DEF C3
<1>8. HasMost(C4)
  BY <1>1, <1>3, <1>4, <1>7
<1> HIDE DEF C4
<1>9. HasMost(C5)
  BY <1>1, <1>3, <1>4, <1>8
<1> QED
  BY <1>2, <1>9 DEF HasMost

\* Of several candidates the scan selects one.
LEMMA SelectedExists ==
  ASSUME exc.pending \subseteq RaisedByCode, Pending # {}
  PROVE  \E e \in Pending : Selected(exc, cpu.ipsr, e)
<1>1. Pending \subseteq RaisedByCode
  BY DEF Pending, Candidates
<1>2. \E e \in Pending : \A f \in Pending : Prio[e] < Prio[f] \/ (Prio[e] = Prio[f] /\ f <= e)
  <2> DEFINE C == Pending
  <2>1. C \subseteq RaisedByCode /\ C # {}
    BY <1>1
  <2> HIDE DEF C
  <2>2. \E e \in C : \A f \in C : Prio[e] <= Prio[f]
    BY <2>1, MostUrgentExists
  <2>3. PICK m \in C : \A f \in C : Prio[m] <= Prio[f]
    BY <2>2
  <2> DEFINE D == {f \in C : Prio[f] = Prio[m]}
  <2>4. D \subseteq RaisedByCode /\ D # {}
    BY <2>1, <2>3
  <2>5. \A f \in C : f \notin D => Prio[m] < Prio[f]
    BY <2>1, <2>3, PriorityIsInt
  <2>6. \A f \in D : f \in C /\ Prio[f] = Prio[m]
    OBVIOUS
  <2> HIDE DEF D
  <2>7. \E e \in D : \A f \in D : f <= e
    <3>1. D \subseteq {3, 5, 6, 11, 15} /\ D # {}
      BY <2>4 DEF RaisedByCode, HardFault, BusFault, UsageFault, SVCall, SysTick
    <3>2. CASE 15 \in D
      BY <3>1, <3>2
    <3>3. CASE 11 \in D /\ 15 \notin D
      <4>1. \A f \in D : f <= 11
        BY <3>1, <3>3
      <4> QED
        BY <3>3, <4>1
    <3>4. CASE 6 \in D /\ 11 \notin D /\ 15 \notin D
      <4>1. \A f \in D : f <= 6
        BY <3>1, <3>4
      <4> QED
        BY <3>4, <4>1
    <3>5. CASE 5 \in D /\ 6 \notin D /\ 11 \notin D /\ 15 \notin D
      <4>1. \A f \in D : f <= 5
        BY <3>1, <3>5
      <4> QED
        BY <3>5, <4>1
    <3>6. CASE D \subseteq {3}
      <4>1. \A f \in D : f = 3
        BY <3>6
      <4>2. PICK x \in D : TRUE
        BY <3>1
      <4> QED
        BY <4>1, <4>2
    <3> QED
      BY <3>1, <3>2, <3>3, <3>4, <3>5, <3>6
  <2> QED
    BY <2>5, <2>6, <2>7 DEF C
<1> QED
  BY <1>2 DEF Selected, Pending

\* After an entry nothing is left that could preempt the handler.
LEMMA EntryLeavesNone ==
  ASSUME Typed, NEW instant, NEW e \in TakenAt(instant), NEW ret,
         ExceptionEntry(e, ret), status' # "panic"
  PROVE  Pending' = {}
<1>1. /\ e \in Exc
      /\ Prio[e] < ExecutingPriority(cpu.ipsr)
      /\ \A f \in Pending : Prio[e] <= Prio[f]
  BY TypedExc, TakesCandidate, PriorityIsInt
  DEF TakenAt, Takes, Selected, Pending, Candidates, ExcStates
<1>2. /\ exc'.pending = exc.pending \ {e}
      /\ exc'.active = exc.active \cup {e}
      /\ cpu'.ipsr = e
  <2>1. PushStack(cpu) \in CpuState
    BY TypedExc, PushStackType
  <2>2. /\ cpu' = ExceptionTaken(PushStack(cpu), e)
        /\ exc' = SetActive(ClearPending(exc, e), e)
    BY DEF ExceptionEntry
  <2>3. cpu'.ipsr = e
    BY <2>1, <2>2 DEF ExceptionTaken, CpuState
  <2> QED
    BY <2>2, <2>3 DEF SetActive, ClearPending
<1>3. ExecutingPriority(e) = Prio[e]
  BY <1>1, PriorityIsInt DEF ExecutingPriority
<1>4. cpu.ipsr \in {NoException} \cup Exc /\ exc.pending \subseteq Exc
  BY TypedExc DEF CpuState, ExcStates
<1> SUFFICES ASSUME NEW f \in Pending' PROVE FALSE
  OBVIOUS
<1>5. f \in exc.pending \ exc.active /\ Prio[f] < Prio[e]
  BY <1>2, <1>3 DEF Pending, Candidates
<1>6. f \in Pending
  BY <1>1, <1>4, <1>5, PriorityIsInt DEF Pending, Candidates
<1> QED
  BY <1>1, <1>4, <1>5, <1>6, PriorityIsInt

LEMMA RestartedServed == Restarted => Served
BY DEF Restarted, InitExceptionStates, Served, SelectedAsync, Pending, Candidates

LEMMA InitServed == Init => Served
BY InitRestarted, RestartedServed

LEMMA HostResetServed == Typed /\ HostReset => Served'
<1>1. Restarted' => Served'
  BY RestartedServed, PTL
<1> QED
  BY <1>1, HostResetRestarts

LEMMA EntryServed ==
  ASSUME Typed, Served, PreFetchEntry \/ PostFetchEntry \/ PostExecEntry
  PROVE  Served'
<1>1. \E instant \in {"PreFetch", "PostFetch", "PostExec"} :
        \E e \in TakenAt(instant), ret \in {cpu.pc, local.pc} : ExceptionEntry(e, ret)
  BY DEF PreFetchEntry, PostFetchEntry, PostExecEntry
<1>2. exc'.pending \subseteq exc.pending
  BY <1>1 DEF ExceptionEntry, SetActive, ClearPending
<1>3. status' # "panic" => Pending' = {}
  BY <1>1, EntryLeavesNone
<1>4. phase' \in {"Fetch", "Tick"}
  BY DEF PreFetchEntry, PostFetchEntry, PostExecEntry
<1> QED
  BY <1>2, <1>3, <1>4 DEF Served, SelectedAsync

LEMMA NoEntryServed ==
  ASSUME Typed, Served, PreFetchNone \/ PostFetchNone \/ PostExecNone
  PROVE  Served'
<1>1. /\ exc' = exc /\ cpu' = cpu /\ status' = status /\ status = "running"
      /\ Pending' = Pending
  BY DEF PreFetchNone, PostFetchNone, PostExecNone, At, Pending
<1>2. \A instant \in {"PreFetch", "PostFetch", "PostExec"}, e \in Pending :
        Selected(exc, cpu.ipsr, e) /\ CanExecute(instant, e) => e \in TakenAt(instant)
  BY CountNonzero, TypedExc DEF TakenAt, Takes, Pending, Candidates, ExcStates
<1>0. /\ exc.pending \subseteq RaisedByCode
      /\ Pending # {} => \E e \in Pending : Selected(exc, cpu.ipsr, e)
  BY SelectedExists DEF Served
<1>3. CASE PreFetchNone
  <2>1. SelectedAsync /\ TakenAt("PreFetch") = {}
    BY <1>1, <1>3 DEF PreFetchNone, At, Served
  <2>2. CanExecute("PreFetch", SVCall) /\ CanExecute("PreFetch", SysTick)
    BY DEF CanExecute, SVCall, SysTick
  <2>3. ASSUME Pending # {} PROVE FALSE
    <3>1. PICK e \in Pending : Selected(exc, cpu.ipsr, e)
      BY <1>0, <2>3
    <3>2. CanExecute("PreFetch", e)
      BY <2>1, <2>2, <3>1 DEF SelectedAsync
    <3> QED
      BY <1>2, <2>1, <3>1, <3>2
  <2>6. phase' = "Fetch"
    BY <1>3 DEF PreFetchNone
  <2> QED
    BY <1>1, <1>0, <2>6, <2>3 DEF Served
<1>4. CASE PostFetchNone
  <2>1. PICK f \in {BusFault, UsageFault} : Pending \subseteq {f}
    BY <1>1, <1>4 DEF PostFetchNone, At, Served
  <2>2. CanExecute("PostFetch", f)
    BY DEF CanExecute, BusFault, UsageFault
  <2>3. ASSUME Pending # {} PROVE f \in TakenAt("PostFetch")
    <3>1. PICK e \in Pending : Selected(exc, cpu.ipsr, e)
      BY <1>0, <2>3
    <3>2. e = f
      BY <2>1, <3>1
    <3> QED
      BY <1>2, <2>2, <3>1, <3>2
  <2>6. phase' = "Execute"
    BY <1>4 DEF PostFetchNone
  <2>7. Pending = {}
    BY <1>4, <2>3 DEF PostFetchNone
  <2> QED
    BY <1>1, <2>6, <2>7 DEF Served
<1>5. CASE PostExecNone
  <2>1. TakenAt("PostExec") = {}
    BY <1>5 DEF PostExecNone
  <2>2. \A e \in {HardFault, BusFault, UsageFault} : CanExecute("PostExec", e)
    BY DEF CanExecute, HardFault, BusFault, UsageFault
  <2>3. Pending \subseteq RaisedByCode
    BY DEF Served, Pending, Candidates
  <2>4. SelectedAsync
    <3> SUFFICES ASSUME NEW e \in Pending, Selected(exc, cpu.ipsr, e),
                        e \notin {SVCall, SysTick}
                 PROVE  FALSE
      BY DEF SelectedAsync
    <3>1. e \in {HardFault, BusFault, UsageFault}
      BY <2>3 DEF RaisedByCode
    <3>2. CanExecute("PostExec", e)
      BY <2>2, <3>1
    <3>3. e \in TakenAt("PostExec")
      BY <1>2, <3>2
    <3> QED
      BY <2>1, <3>3
  <2>5. SelectedAsync'
    BY <1>1, <2>4 DEF SelectedAsync
  <2>6. phase' = "Tick"
    BY <1>5 DEF PostExecNone
  <2> QED
    BY <1>1, <2>6, <2>5 DEF Served
<1> QED
  BY <1>3, <1>4, <1>5

LEMMA FetchServed ==
  ASSUME Served, FetchOk \/ FetchFault \/ FetchInvalidState
  PROVE  Served'
<1>1. /\ phase' = "PostFetch" /\ cpu' = cpu /\ Pending = {}
      /\ exc' \in {exc, SetPending(exc, BusFault), SetPending(exc, UsageFault)}
  BY DEF FetchOk, FetchFault, FetchInvalidState, Fetched, At, Served
<1>2. \E f \in {BusFault, UsageFault} : Pending' \subseteq {f}
  BY <1>1 DEF Pending, Candidates, SetPending
<1>3. exc'.pending \subseteq RaisedByCode
  BY <1>1 DEF Served, SetPending, RaisedByCode
<1> QED
  BY <1>1, <1>2, <1>3 DEF Served

LEMMA ExecuteServed ==
  ASSUME Typed, Served, Execute
  PROVE  Served'
<1>1. exc'.pending \subseteq RaisedByCode
  <2>1. exc' \in {exc, SetPending(exc, SVCall), SetPending(exc, HardFault),
                  SetPending(exc, BusFault), SetPending(exc, UsageFault),
                  ClearActive(exc, cpu.ipsr)}
    BY DEF Execute, ExecPlain, ExecBranch, ExecIt, ExecSvc, ExecBkpt, ExecDataFault,
       ExecDivByZero, ExecBxToArm, ExecPush, ExecPop, ExecMsrControl, ExecFixUp,
       ExecBxReturn, ExecPopReturn, Returning, ExecExit, ExecErrorExit, Leaves
  <2> QED
    BY <2>1 DEF Served, SetPending, ClearActive, RaisedByCode
<1>2. CASE ExecExit
  <2>1. exc' = exc /\ phase' = "PreFetch" /\ phase = "Execute" /\ status = "running"
    BY <1>2 DEF ExecExit, Leaves, Executes, At
  <2>2. cpu'.ipsr = cpu.ipsr
    BY <1>2, TypedExc
    DEF ExecExit, Leaves, AdvancePcAndIt, AdvanceInstr, ITAdvance, CpuState
  <2>3. Pending' = {}
    BY <2>1, <2>2 DEF Served, Pending
  <2> QED
    BY <1>1, <2>1, <2>3 DEF Served, SelectedAsync
<1>3. CASE ExecErrorExit
  BY <1>1, <1>3 DEF ExecErrorExit, Leaves, Served
<1>4. CASE ~ExecExit /\ ~ExecErrorExit
  <2>1. phase' = "PostExec"
    BY <1>4 DEF Execute, ExecPlain, ExecBranch, ExecIt, ExecSvc, ExecBkpt, ExecDataFault,
       ExecDivByZero, ExecBxToArm, ExecPush, ExecPop, ExecMsrControl, ExecFixUp,
       ExecBxReturn, ExecPopReturn, Returning, Retire
  <2> QED
    BY <1>1, <2>1 DEF Served
<1> QED
  BY <1>2, <1>3, <1>4

LEMMA LoopServed ==
  ASSUME Typed, Served, SysTickStep \/ ExecAgain
  PROVE  Served'
<1>1. CASE SysTickStep
  <2>1. /\ phase' = "PreFetch" /\ SelectedAsync /\ cpu' = cpu
        /\ exc' \in {exc, SetPending(exc, SysTick)}
    BY <1>1 DEF SysTickStep, At, Served
  <2>2. exc'.pending \subseteq RaisedByCode
    BY <2>1 DEF Served, SetPending, RaisedByCode
  <2>3. ASSUME NEW e \in Pending', Selected(exc, cpu.ipsr, e)'
        PROVE  e \in {SVCall, SysTick}
    <3>1. Pending \subseteq Pending' /\ Pending' \subseteq Pending \cup {SysTick}
      BY <2>1 DEF Pending, Candidates, SetPending
    <3>2. e \in Pending => Selected(exc, cpu.ipsr, e)
      BY <2>3, <3>1 DEF Selected, Pending
    <3> QED
      BY <2>1, <2>3, <3>1, <3>2 DEF SelectedAsync
  <2> QED
    BY <2>1, <2>2, <2>3 DEF Served, SelectedAsync
<1>2. CASE ExecAgain
  BY <1>2 DEF ExecAgain, Served, SelectedAsync, Pending
<1> QED
  BY <1>1, <1>2

LEMMA NextServed == Typed /\ Served /\ [Next]_vars => Served'
<1> SUFFICES ASSUME Typed, Served, [Next]_vars PROVE Served'
  OBVIOUS
<1>1. CASE Next
  BY <1>1, EntryServed, NoEntryServed, FetchServed, ExecuteServed, LoopServed,
     HostResetServed DEF Next, Step
<1>2. CASE UNCHANGED vars
  BY <1>2 DEF vars, Served, SelectedAsync, Pending
<1> QED
  BY <1>1, <1>2

\* AsyncServed: once the checks before the fetch are over, no asynchronous exception
\* that could preempt waits, whatever the firmware, the vectors and the priorities.
THEOREM AsyncServedCorrect == Spec => []AsyncServed
<1>1. Served => AsyncServed
  BY DEF Served, AsyncServed, Pending
<1> QED
  BY <1>1, InitTyped, NextTyped, InitServed, NextServed, PTL DEF Spec

------------------------------------------------------------------------------
(* Nested exceptions: the inductive invariant, as an operator of frames,      *)
(* state and flags                                                            *)

Ctx(fs, c, k) == IF k <= Len(fs) THEN fs[k].ctx ELSE c

\* The frame holds what PushStack stored for its context.
Sound(f) ==
  /\ f.stack = EntryStack(f.ctx)
  /\ f.sp = PushedSP(EntrySP(f.ctx), StkAlign)
  /\ f.align = FramePtrAlign(EntrySP(f.ctx), StkAlign)
  /\ f.pc = f.ctx.pc /\ f.thumb = f.ctx.thumb
  /\ f.ipsr = f.ctx.ipsr /\ f.lr = f.ctx.lr

ModeOK(c) ==
  /\ c.mode = "Handler" <=> c.ipsr # NoException
  /\ c.mode = "Handler" => c.spsel = 0

\* The context runs on top of the frame: it can return to it.
Over(c, f) ==
  /\ c.mode = "Handler"
  /\ c.lr = ExcReturnValue(f.ctx)
  /\ c.psp = IF f.stack = "process" THEN f.sp ELSE f.ctx.psp

ChainOf(fs, c, A) ==
  /\ \A k \in 1 .. Len(fs) : Sound(fs[k]) /\ Over(Ctx(fs, c, k + 1), fs[k])
  /\ \A k \in 1 .. Len(fs) + 1 : ModeOK(Ctx(fs, c, k))
  /\ Ctx(fs, c, 1).ipsr = NoException
  /\ \A i, j \in 1 .. Len(fs) + 1 :
       i < j => ExecutingPriority(Ctx(fs, c, j).ipsr)
                  < ExecutingPriority(Ctx(fs, c, i).ipsr)
  /\ A = {Ctx(fs, c, k).ipsr : k \in 1 .. Len(fs) + 1} \ {NoException}

Chain == status # "panic" => ChainOf(frames, cpu, exc.active)

NestInv == Typed /\ Chain

------------------------------------------------------------------------------
(* Running, entering and returning keep the chain *)

LEMMA CtxType ==
  ASSUME NEW fs \in Seq(Frame), NEW c \in CpuState, NEW k \in 1 .. Len(fs) + 1
  PROVE  Ctx(fs, c, k) \in CpuState
<1>1. k <= Len(fs) => fs[k] \in Frame
  OBVIOUS
<1> QED
  BY <1>1 DEF Ctx, Frame

\* Priorities are integers.
LEMMA PriorityType ==
  ASSUME NEW c \in CpuState
  PROVE  ExecutingPriority(c.ipsr) \in Int
<1>1. \A e \in Exc : Prio[e] \in Int
  BY PrioAssumption
<1> QED
  BY <1>1 DEF ExecutingPriority, CpuState

\* What the code of a context may not change.
SameRole(c, d) ==
  /\ d.mode = c.mode /\ d.ipsr = c.ipsr /\ d.lr = c.lr /\ d.psp = c.psp
  /\ d.spsel = c.spsel \/ c.mode = "Thread"

LEMMA RunChain ==
  ASSUME NEW fs \in Seq(Frame), NEW c \in CpuState, NEW d \in CpuState, NEW A,
         ChainOf(fs, c, A), SameRole(c, d)
  PROVE  ChainOf(fs, d, A)
<1>1. \A k \in 1 .. Len(fs) + 1 : SameRole(Ctx(fs, c, k), Ctx(fs, d, k))
  BY DEF Ctx, SameRole
<1>2. \A k \in 1 .. Len(fs) + 1 : Ctx(fs, d, k).ipsr = Ctx(fs, c, k).ipsr
  BY <1>1 DEF SameRole
<1>3. \A k \in 1 .. Len(fs) : Sound(fs[k]) /\ Over(Ctx(fs, d, k + 1), fs[k])
  BY <1>1 DEF ChainOf, Over, SameRole
<1>4. \A k \in 1 .. Len(fs) + 1 : ModeOK(Ctx(fs, d, k))
  BY <1>1, CtxType DEF ChainOf, ModeOK, SameRole
<1>5. Ctx(fs, d, 1).ipsr = NoException
  BY <1>2 DEF ChainOf
<1>6. \A i, j \in 1 .. Len(fs) + 1 :
       i < j => ExecutingPriority(Ctx(fs, d, j).ipsr)
                  < ExecutingPriority(Ctx(fs, d, i).ipsr)
  BY <1>2 DEF ChainOf
<1>7. A = {Ctx(fs, d, k).ipsr : k \in 1 .. Len(fs) + 1} \ {NoException}
  BY <1>2 DEF ChainOf
<1> QED
  BY <1>3, <1>4, <1>5, <1>6, <1>7 DEF ChainOf

LEMMA PushChain ==
  ASSUME NEW fs \in Seq(Frame), NEW c \in CpuState, NEW d \in CpuState, NEW A,
         NEW ret \in Loc, ChainOf(fs, c, A), Over(d, PushedFrame(c, ret)),
         d.spsel = 0, d.ipsr \in Exc,
         ExecutingPriority(d.ipsr) < ExecutingPriority(c.ipsr)
  PROVE  ChainOf(Append(fs, PushedFrame(c, ret)), d, A \cup {d.ipsr})
<1> DEFINE f  == PushedFrame(c, ret)
           gs == Append(fs, f)
           n  == Len(fs)
<1>1. f \in Frame /\ f.ctx = [c EXCEPT !.pc = ret]
  BY PushedFrameType DEF PushedFrame
<1>2. gs \in Seq(Frame) /\ Len(gs) = n + 1 /\ n \in Nat
  BY <1>1
<1>3. \A k \in 1 .. n : gs[k] = fs[k]
  OBVIOUS
<1>4. gs[n + 1] = f
  OBVIOUS
<1> HIDE DEF gs, f
<1>5. SameRole(c, f.ctx) /\ f.ctx.spsel = c.spsel
  BY <1>1 DEF SameRole, CpuState
<1>6. Sound(f)
  BY <1>5 DEF Sound, f, PushedFrame, EntryStack, EntrySP, SameRole, CpuState
<1>7. \A k \in 1 .. n : Ctx(gs, d, k) = Ctx(fs, c, k)
  BY <1>2, <1>3 DEF Ctx
<1>8. Ctx(gs, d, n + 1) = f.ctx /\ Ctx(gs, d, n + 2) = d
  BY <1>2, <1>4 DEF Ctx
<1>9. Ctx(fs, c, n + 1) = c
  BY <1>2 DEF Ctx
<1>10. \A k \in 1 .. n + 1 : SameRole(Ctx(fs, c, k), Ctx(gs, d, k))
  BY <1>2, <1>5, <1>7, <1>8, <1>9 DEF SameRole
<1>11. \A k \in 1 .. n + 1 : Ctx(gs, d, k).ipsr = Ctx(fs, c, k).ipsr
  BY <1>10 DEF SameRole
<1>12. \A k \in 1 .. Len(gs) : Sound(gs[k]) /\ Over(Ctx(gs, d, k + 1), gs[k])
  <2> SUFFICES ASSUME NEW k \in 1 .. n + 1
               PROVE  Sound(gs[k]) /\ Over(Ctx(gs, d, k + 1), gs[k])
    BY <1>2
  <2>1. CASE k = n + 1
    BY <1>4, <1>6, <1>8, <2>1 DEF f
  <2>2. CASE k \in 1 .. n
    <3>1. Sound(fs[k]) /\ Over(Ctx(fs, c, k + 1), fs[k])
      BY <2>2 DEF ChainOf
    <3>2. SameRole(Ctx(fs, c, k + 1), Ctx(gs, d, k + 1))
      BY <1>10, <2>2
    <3> QED
      BY <1>3, <2>2, <3>1, <3>2 DEF Over, SameRole
  <2> QED
    BY <1>2, <2>1, <2>2
<1>13. \A k \in 1 .. Len(gs) + 1 : ModeOK(Ctx(gs, d, k))
  <2> SUFFICES ASSUME NEW k \in 1 .. n + 2 PROVE ModeOK(Ctx(gs, d, k))
    BY <1>2
  <2>1. CASE k = n + 2
    <3>1. d.ipsr # NoException
      BY ExcAssumption DEF NoException
    <3> QED
      BY <1>8, <2>1, <3>1 DEF ModeOK, Over
  <2>2. CASE k \in 1 .. n + 1
    <3>1. ModeOK(Ctx(fs, c, k))
      BY <2>2 DEF ChainOf
    <3>2. SameRole(Ctx(fs, c, k), Ctx(gs, d, k))
      BY <1>10, <2>2
    <3> QED
      BY <3>1, <3>2 DEF ModeOK, SameRole
  <2> QED
    BY <1>2, <2>1, <2>2
<1>14. Ctx(gs, d, 1).ipsr = NoException
  BY <1>2, <1>11 DEF ChainOf
<1>15. \A i, j \in 1 .. Len(gs) + 1 :
         i < j => ExecutingPriority(Ctx(gs, d, j).ipsr)
                    < ExecutingPriority(Ctx(gs, d, i).ipsr)
  <2> SUFFICES ASSUME NEW i \in 1 .. n + 2, NEW j \in 1 .. n + 2, i < j
               PROVE  ExecutingPriority(Ctx(gs, d, j).ipsr)
                        < ExecutingPriority(Ctx(gs, d, i).ipsr)
    BY <1>2
  <2>1. CASE j \in 1 .. n + 1
    BY <1>2, <1>11, <2>1 DEF ChainOf
  <2>2. CASE j = n + 2 /\ i = n + 1
    BY <1>2, <1>8, <1>9, <1>11, <2>2
  <2>3. CASE j = n + 2 /\ i \in 1 .. n
    <3>1. ExecutingPriority(c.ipsr) < ExecutingPriority(Ctx(fs, c, i).ipsr)
      BY <1>2, <1>9, <2>3 DEF ChainOf
    <3>2. Ctx(fs, c, i) \in CpuState
      BY <2>3, CtxType
    <3> QED
      BY <1>8, <1>11, <2>3, <3>1, <3>2, PriorityType
  <2> QED
    BY <1>2, <2>1, <2>2, <2>3
<1>16. A \cup {d.ipsr} = {Ctx(gs, d, k).ipsr : k \in 1 .. Len(gs) + 1} \ {NoException}
  <2>1. d.ipsr # NoException
    BY ExcAssumption DEF NoException
  <2>2. A = {Ctx(gs, d, k).ipsr : k \in 1 .. n + 1} \ {NoException}
    BY <1>11 DEF ChainOf
  <2>3. 1 .. Len(gs) + 1 = (1 .. n + 1) \cup {n + 2}
    BY <1>2
  <2> QED
    BY <1>8, <2>1, <2>2, <2>3
<1>17. gs = Append(fs, f)
  BY DEF gs
<1> QED
  BY <1>12, <1>13, <1>14, <1>15, <1>16, <1>17 DEF ChainOf, f

LEMMA PopChain ==
  ASSUME NEW fs \in Seq(Frame), fs # <<>>, NEW c \in CpuState, NEW d \in CpuState,
         NEW A, ChainOf(fs, c, A), SameRole(fs[Len(fs)].ctx, d)
  PROVE  ChainOf(Front(fs), d, A \ {c.ipsr})
<1> DEFINE gs == Front(fs)
           n  == Len(fs)
<1>1. n \in Nat \ {0} /\ gs \in Seq(Frame) /\ Len(gs) = n - 1
  BY FrontProperties
<1>2. \A k \in 1 .. n - 1 : gs[k] = fs[k]
  BY FrontProperties
<1> HIDE DEF gs
<1>3. \A k \in 1 .. n : SameRole(Ctx(fs, c, k), Ctx(gs, d, k))
  BY <1>1, <1>2 DEF Ctx, SameRole
<1>4. \A k \in 1 .. n : Ctx(gs, d, k).ipsr = Ctx(fs, c, k).ipsr
  BY <1>3 DEF SameRole
<1>5. \A k \in 1 .. Len(gs) : Sound(gs[k]) /\ Over(Ctx(gs, d, k + 1), gs[k])
  <2> SUFFICES ASSUME NEW k \in 1 .. n - 1
               PROVE  Sound(gs[k]) /\ Over(Ctx(gs, d, k + 1), gs[k])
    BY <1>1
  <2>1. Sound(fs[k]) /\ Over(Ctx(fs, c, k + 1), fs[k])
    BY <1>1 DEF ChainOf
  <2>2. SameRole(Ctx(fs, c, k + 1), Ctx(gs, d, k + 1))
    BY <1>1, <1>3
  <2> QED
    BY <1>2, <2>1, <2>2 DEF Over, SameRole
<1>6. \A k \in 1 .. Len(gs) + 1 : ModeOK(Ctx(gs, d, k))
  <2> SUFFICES ASSUME NEW k \in 1 .. n PROVE ModeOK(Ctx(gs, d, k))
    BY <1>1
  <2>1. ModeOK(Ctx(fs, c, k)) /\ SameRole(Ctx(fs, c, k), Ctx(gs, d, k))
    BY <1>1, <1>3 DEF ChainOf
  <2> QED
    BY <2>1 DEF ModeOK, SameRole
<1>7. Ctx(gs, d, 1).ipsr = NoException
  BY <1>1, <1>4 DEF ChainOf
<1>8. \A i, j \in 1 .. Len(gs) + 1 :
         i < j => ExecutingPriority(Ctx(gs, d, j).ipsr)
                    < ExecutingPriority(Ctx(gs, d, i).ipsr)
  BY <1>1, <1>4 DEF ChainOf
<1>9. A \ {c.ipsr} = {Ctx(gs, d, k).ipsr : k \in 1 .. Len(gs) + 1} \ {NoException}
  <2>1. Ctx(fs, c, n + 1) = c
    BY <1>1 DEF Ctx
  <2>2. \A k \in 1 .. n : Ctx(fs, c, k).ipsr # c.ipsr
    <3> SUFFICES ASSUME NEW k \in 1 .. n, Ctx(fs, c, k).ipsr = c.ipsr PROVE FALSE
      OBVIOUS
    <3>1. ExecutingPriority(c.ipsr) < ExecutingPriority(Ctx(fs, c, k).ipsr)
      BY <1>1, <2>1 DEF ChainOf
    <3> QED
      BY <3>1, PriorityType
  <2>3. 1 .. n + 1 = (1 .. n) \cup {n + 1}
    BY <1>1
  <2>4. A = ({Ctx(fs, c, k).ipsr : k \in 1 .. n} \cup {c.ipsr}) \ {NoException}
    BY <2>1, <2>3 DEF ChainOf
  <2>5. {Ctx(gs, d, k).ipsr : k \in 1 .. n} = {Ctx(fs, c, k).ipsr : k \in 1 .. n}
    BY <1>4
  <2>6. c.ipsr \notin {Ctx(fs, c, k).ipsr : k \in 1 .. n}
    BY <2>2
  <2> QED
    BY <1>1, <2>4, <2>5, <2>6
<1> QED
  BY <1>5, <1>6, <1>7, <1>8, <1>9 DEF ChainOf, gs

\* A handler that edits the frame below it changes the context that the frame
\* stands for in the same way.
LEMMA EditChain ==
  ASSUME NEW fs \in Seq(Frame), fs # <<>>, NEW c \in CpuState, NEW A,
         NEW pc \in Loc, NEW t \in {0, 1}, ChainOf(fs, c, A)
  PROVE  ChainOf([fs EXCEPT ![Len(fs)] =
                    [fs[Len(fs)] EXCEPT !.pc = pc, !.thumb = t,
                                        !.ctx.pc = pc, !.ctx.thumb = t]], c, A)
<1> DEFINE n   == Len(fs)
           top == fs[n]
           new == [top EXCEPT !.pc = pc, !.thumb = t,
                              !.ctx.pc = pc, !.ctx.thumb = t]
           gs  == [fs EXCEPT ![n] = new]
<1>1. n \in Nat /\ n # 0 /\ top \in Frame
  OBVIOUS
<1>2. Len(gs) = n /\ gs[n] = new /\ \A k \in 1 .. n - 1 : gs[k] = fs[k]
  <2>1. new \in Frame
    BY <1>1 DEF Frame, CpuState
  <2> HIDE DEF new
  <2>2. n \in 1 .. Len(fs)
    BY <1>1
  <2>3. Len(gs) = Len(fs) /\ \A k \in 1 .. n : gs[k] = IF k = n THEN new ELSE fs[k]
    BY <2>1, <2>2, ExceptSeq
  <2> HIDE DEF gs
  <2> QED
    BY <1>1, <2>3
<1>3. /\ new.ctx = [top.ctx EXCEPT !.pc = pc, !.thumb = t]
      /\ new.stack = top.stack /\ new.sp = top.sp /\ new.align = top.align
      /\ new.pc = pc /\ new.thumb = t /\ new.ipsr = top.ipsr /\ new.lr = top.lr
  BY <1>1 DEF Frame
<1>4. SameRole(top.ctx, new.ctx) /\ new.ctx.spsel = top.ctx.spsel
      /\ new.ctx.msp = top.ctx.msp /\ new.ctx.pc = pc /\ new.ctx.thumb = t
  BY <1>1, <1>3 DEF SameRole, Frame, CpuState
<1> HIDE DEF new, gs
<1>5. \A k \in 1 .. n + 1 : SameRole(Ctx(fs, c, k), Ctx(gs, c, k))
  BY <1>1, <1>2, <1>4 DEF Ctx, SameRole
<1>6. \A k \in 1 .. n + 1 : Ctx(gs, c, k).ipsr = Ctx(fs, c, k).ipsr
  BY <1>5 DEF SameRole
<1>7. \A k \in 1 .. Len(gs) : Sound(gs[k]) /\ Over(Ctx(gs, c, k + 1), gs[k])
  <2> SUFFICES ASSUME NEW k \in 1 .. n
               PROVE  Sound(gs[k]) /\ Over(Ctx(gs, c, k + 1), gs[k])
    BY <1>2
  <2>1. Sound(fs[k]) /\ Over(Ctx(fs, c, k + 1), fs[k])
    BY DEF ChainOf
  <2>2. SameRole(Ctx(fs, c, k + 1), Ctx(gs, c, k + 1))
    BY <1>1, <1>5
  <2>3. CASE k = n
    <3>1. Sound(new)
      BY <1>3, <1>4, <2>1, <2>3 DEF Sound, SameRole, EntryStack, EntrySP
    <3>2. Over(Ctx(gs, c, k + 1), new)
      BY <1>3, <1>4, <2>1, <2>2, <2>3 DEF Over, SameRole, ExcReturnValue
    <3> QED
      BY <1>2, <2>3, <3>1, <3>2
  <2>4. CASE k # n
    BY <1>1, <1>2, <2>1, <2>2, <2>4 DEF Over, SameRole
  <2> QED
    BY <2>3, <2>4
<1>8. \A k \in 1 .. Len(gs) + 1 : ModeOK(Ctx(gs, c, k))
  <2> SUFFICES ASSUME NEW k \in 1 .. n + 1 PROVE ModeOK(Ctx(gs, c, k))
    BY <1>2
  <2>1. ModeOK(Ctx(fs, c, k)) /\ SameRole(Ctx(fs, c, k), Ctx(gs, c, k))
    BY <1>5 DEF ChainOf
  <2> QED
    BY <2>1 DEF ModeOK, SameRole
<1>9. Ctx(gs, c, 1).ipsr = NoException
  BY <1>1, <1>6 DEF ChainOf
<1>10. \A i, j \in 1 .. Len(gs) + 1 :
         i < j => ExecutingPriority(Ctx(gs, c, j).ipsr)
                    < ExecutingPriority(Ctx(gs, c, i).ipsr)
  BY <1>2, <1>6 DEF ChainOf
<1>11. A = {Ctx(gs, c, k).ipsr : k \in 1 .. Len(gs) + 1} \ {NoException}
  <2>1. A = {Ctx(fs, c, k).ipsr : k \in 1 .. n + 1} \ {NoException}
    BY DEF ChainOf
  <2>2. {Ctx(gs, c, k).ipsr : k \in 1 .. n + 1} = {Ctx(fs, c, k).ipsr : k \in 1 .. n + 1}
    BY <1>6
  <2> QED
    BY <1>2, <2>1, <2>2
<1>12. ChainOf(gs, c, A)
  BY <1>7, <1>8, <1>9, <1>10, <1>11 DEF ChainOf
<1> QED
  BY <1>12 DEF gs, new

------------------------------------------------------------------------------
(* Every action keeps the invariant *)

LEMMA RestartedChain == Restarted => Chain
<1> SUFFICES ASSUME Restarted PROVE ChainOf(frames, cpu, exc.active)
  BY DEF Chain
<1>1. frames = <<>> /\ Len(frames) = 0 /\ exc.active = {}
  BY DEF Restarted, InitExceptionStates
<1>2. Ctx(frames, cpu, 1) = cpu
  BY <1>1 DEF Ctx
<1>3. ModeOK(cpu) /\ cpu.ipsr = NoException
  BY RestartedCpu DEF ModeOK, NoException
<1> QED
  BY <1>1, <1>2, <1>3 DEF ChainOf

LEMMA InitChain == Init => Chain
BY InitRestarted, RestartedChain

LEMMA HostResetChain == NestInv /\ HostReset => Chain'
<1>1. Restarted' => Chain'
  BY RestartedChain, PTL
<1> QED
  BY <1>1, HostResetRestarts DEF NestInv

LEMMA EntryChain ==
  ASSUME NestInv, status # "panic", NEW instant, NEW e \in TakenAt(instant),
         NEW ret \in Loc, ExceptionEntry(e, ret)
  PROVE  Chain'
<1>1. CASE Vector[e] = "unmapped"
  BY <1>1 DEF ExceptionEntry, Chain
<1>2. CASE Vector[e] # "unmapped"
  <2> DEFINE d == ExceptionTaken(PushStack(cpu), e)
             f == PushedFrame(cpu, ret)
  <2>1. /\ frames \in Seq(Frame) /\ cpu \in CpuState /\ exc \in ExcStates
        /\ ChainOf(frames, cpu, exc.active)
    BY TypedExc DEF NestInv, Chain
  <2>2. e \in Exc /\ Prio[e] < ExecutingPriority(cpu.ipsr)
    BY <2>1, TakesCandidate DEF TakenAt, Candidates, Takes, Selected
  <2>3. d \in CpuState
    BY <2>1, <2>2, PushStackType, ExceptionTakenType
  <2>4. /\ d.mode = "Handler" /\ d.spsel = 0 /\ d.ipsr = e
        /\ d.lr = ExcReturnValue(cpu)
        /\ d.psp = IF EntryStack(cpu) = "process" THEN PushedSP(cpu.psp, StkAlign)
                   ELSE cpu.psp
    BY <2>1 DEF ExceptionTaken, PushStack, CpuState
  <2>5. /\ f.ctx = [cpu EXCEPT !.pc = ret] /\ f.stack = EntryStack(cpu)
        /\ f.sp = PushedSP(EntrySP(cpu), StkAlign)
    BY DEF PushedFrame
  <2>6. ExcReturnValue(f.ctx) = ExcReturnValue(cpu) /\ f.ctx.psp = cpu.psp
    BY <2>1, <2>5 DEF ExcReturnValue, CpuState
  <2>7. Over(d, f)
    BY <2>4, <2>5, <2>6 DEF Over, EntrySP
  <2>8. ExecutingPriority(d.ipsr) < ExecutingPriority(cpu.ipsr)
    <3>1. e # NoException
      BY <2>2, ExcAssumption DEF NoException
    <3> QED
      BY <2>2, <2>4, <3>1 DEF ExecutingPriority
  <2>9. ChainOf(Append(frames, f), d, exc.active \cup {e})
    BY <2>1, <2>2, <2>3, <2>4, <2>7, <2>8, PushChain
  <2>10. /\ frames' = Append(frames, f) /\ cpu' = d
         /\ exc'.active = exc.active \cup {e}
    BY <1>2 DEF ExceptionEntry, SetActive, ClearPending
  <2> QED
    BY <2>9, <2>10 DEF Chain
<1> QED
  BY <1>1, <1>2

\* An instruction that retires in its own context keeps the chain.
LEMMA RetireChain ==
  ASSUME NestInv, status # "panic", NEW c \in CpuState, SameRole(cpu, c),
         Retire(c), frames' = frames, exc'.active = exc.active
  PROVE  Chain'
<1>1. ChainOf(frames, cpu, exc.active) /\ frames \in Seq(Frame) /\ cpu \in CpuState
  BY TypedExc DEF NestInv, Chain
<1>2. ChainOf(frames, c, exc.active)
  BY <1>1, RunChain
<1> QED
  BY <1>2 DEF Chain, Retire

LEMMA AdvanceRole ==
  ASSUME NEW c \in CpuState
  PROVE  SameRole(c, AdvancePcAndIt(c)) /\ SameRole(c, ITAdvance(c))
         /\ SameRole(c, AdvanceInstr(c))
BY DEF AdvancePcAndIt, ITAdvance, AdvanceInstr, SameRole, CpuState

LEMMA RoleTransitive ==
  ASSUME NEW b, NEW c, NEW d, SameRole(b, c), SameRole(c, d)
  PROVE  SameRole(b, d)
BY DEF SameRole

\* R13 never is the process stack pointer: the masked bit 3 of SysCtrl is 0 or
\* 8, never 1.
LEMMA MoveSPRole ==
  ASSUME NEW c \in CpuState, NEW delta \in Int
  PROVE  SameRole(c, MoveSP(c, delta))
<1>1. LookUpSP(c) = "main"
  BY DEF LookUpSP, CpuState
<1> QED
  BY <1>1 DEF MoveSP, SameRole, CpuState

LEMMA RaisingChain ==
  ASSUME NestInv, ExecSvc \/ ExecBkpt \/ ExecDataFault \/ ExecDivByZero
  PROVE  Chain'
<1>1. cpu \in CpuState /\ status # "panic"
  BY TypedExc DEF NestInv, ExecSvc, ExecBkpt, ExecDataFault, ExecDivByZero,
     Executes, At
<1>2. frames' = frames /\ exc'.active = exc.active /\ Retire(AdvancePcAndIt(cpu))
  BY DEF ExecSvc, ExecBkpt, ExecDataFault, ExecDivByZero, SetPending
<1> QED
  BY <1>1, <1>2, AdvanceRole, AdvanceType, RetireChain

LEMMA QuietChain ==
  ASSUME NestInv,
         ExecPlain \/ ExecBranch \/ ExecIt \/ ExecBxToArm \/ ExecPush \/ ExecPop
           \/ ExecMsrControl
  PROVE  Chain'
<1>1. cpu \in CpuState /\ status # "panic" /\ frames' = frames /\ exc' = exc
  BY TypedExc DEF NestInv, ExecPlain, ExecBranch, ExecIt, ExecBxToArm, ExecPush,
     ExecPop, ExecMsrControl, Executes, At
<1>2. \E c \in CpuState : SameRole(cpu, c) /\ Retire(c)
  <2>1. CASE ExecPlain
    BY <1>1, <2>1, AdvanceRole, AdvanceType DEF ExecPlain
  <2>2. CASE ExecBranch
    <3>1. PICK off \in 0 .. LastOff : Retire(ITAdvance([cpu EXCEPT !.pc.off = off]))
      BY <2>2 DEF ExecBranch
    <3> DEFINE b == [cpu EXCEPT !.pc.off = off]
    <3>2. b \in CpuState /\ SameRole(cpu, b)
      BY <1>1 DEF CpuState, Loc, SameRole
    <3> QED
      BY <3>1, <3>2, AdvanceRole, ITAdvanceType, RoleTransitive
  <2>3. CASE ExecIt
    <3>1. PICK n \in 1 .. MaxIT : Retire(AdvanceInstr([cpu EXCEPT !.it = n]))
      BY <2>3 DEF ExecIt
    <3> DEFINE b == [cpu EXCEPT !.it = n]
    <3>2. b \in CpuState /\ SameRole(cpu, b)
      BY <1>1, ProcessorAssumption DEF CpuState, SameRole
    <3> QED
      BY <3>1, <3>2, AdvanceRole, AdvanceInstrType, RoleTransitive
  <2>4. CASE ExecBxToArm
    <3>1. PICK off \in 0 .. LastOff :
            Retire(ITAdvance([cpu EXCEPT !.thumb = 0, !.pc.off = off]))
      BY <2>4 DEF ExecBxToArm
    <3> DEFINE b == [cpu EXCEPT !.thumb = 0, !.pc.off = off]
    <3>2. b \in CpuState /\ SameRole(cpu, b)
      BY <1>1 DEF CpuState, Loc, SameRole
    <3> QED
      BY <3>1, <3>2, AdvanceRole, ITAdvanceType, RoleTransitive
  <2>5. CASE ExecPush
    <3>1. MoveSP(cpu, -4) \in CpuState /\ SameRole(cpu, MoveSP(cpu, -4))
      BY <1>1, MoveSPType, MoveSPRole
    <3> QED
      BY <2>5, <3>1, AdvanceRole, AdvanceType, RoleTransitive DEF ExecPush
  <2>6. CASE ExecPop
    <3>1. MoveSP(cpu, 4) \in CpuState /\ SameRole(cpu, MoveSP(cpu, 4))
      BY <1>1, MoveSPType, MoveSPRole
    <3> QED
      BY <2>6, <3>1, AdvanceRole, AdvanceType, RoleTransitive DEF ExecPop
  <2>7. CASE ExecMsrControl
    <3>1. PICK bit \in {0, 1} :
            Retire(AdvancePcAndIt(
              IF cpu.mode = "Thread" THEN [cpu EXCEPT !.spsel = bit] ELSE cpu))
      BY <2>7 DEF ExecMsrControl
    <3> DEFINE b == IF cpu.mode = "Thread" THEN [cpu EXCEPT !.spsel = bit] ELSE cpu
    <3>2. b \in CpuState /\ SameRole(cpu, b)
      BY <1>1 DEF CpuState, SameRole
    <3> QED
      BY <3>1, <3>2, AdvanceRole, AdvanceType, RoleTransitive
  <2> QED
    BY <2>1, <2>2, <2>3, <2>4, <2>5, <2>6, <2>7
<1> QED
  BY <1>1, <1>2, RetireChain

LEMMA FixUpChain ==
  ASSUME NestInv, ExecFixUp
  PROVE  Chain'
<1> DEFINE top  == frames[Len(frames)]
           next == AdvanceInstr(top).pc
           c    == AdvancePcAndIt(cpu)
<1>1. /\ cpu \in CpuState /\ frames \in Seq(Frame) /\ frames # <<>>
      /\ status # "panic" /\ ChainOf(frames, cpu, exc.active)
  BY TypedExc DEF NestInv, Chain, ExecFixUp, Executes, At
<1>2. next \in Loc
  <2>1. top \in Frame
    BY <1>1
  <2> QED
    BY <2>1, ProcessorAssumption DEF AdvanceInstr, Frame, Loc
<1>3. ChainOf(frames', cpu, exc.active)
  BY <1>1, <1>2, EditChain DEF ExecFixUp
<1>4. c \in CpuState /\ SameRole(cpu, c)
  BY <1>1, AdvanceType, AdvanceRole
<1>5. frames' \in Seq(Frame)
  BY FixUpTyped, TypedExc DEF NestInv, Typed, TypeOK
<1>6. ChainOf(frames', c, exc.active)
  BY <1>1, <1>3, <1>4, <1>5, RunChain
<1> QED
  BY <1>6 DEF Chain, ExecFixUp, Retire

\* States that agree on everything but the IT state.
Alike(c, d) ==
  /\ d.mode = c.mode /\ d.ipsr = c.ipsr /\ d.thumb = c.thumb
  /\ d.spsel = c.spsel /\ d.pc = c.pc /\ d.lr = c.lr
  /\ d.msp = c.msp /\ d.psp = c.psp

LEMMA AlikeEqual ==
  ASSUME NEW c \in CpuState, NEW d \in CpuState, Alike(c, d)
  PROVE  [d EXCEPT !.it = 0] = [c EXCEPT !.it = 0]
BY DEF Alike, CpuState

\* The frame that a handler returns to is the one it was entered with, and
\* ExceptionReturn rebuilds the interrupted context from it.
LEMMA ReturnRestores ==
  ASSUME NestInv, status # "panic", cpu.mode = "Handler", PushedWords = 0,
         NEW f \in FrameAt(ReturnStack(cpu.lr), ReturnSP(cpu, cpu.lr))
  PROVE  /\ frames # <<>> /\ f = frames[Len(frames)] /\ f \in Frame
         /\ Alike(f.ctx, ExceptionReturn(cpu, f, cpu.lr))
         /\ ReturnConsistent(ExceptionReturn(cpu, f, cpu.lr))
<1> DEFINE n   == Len(frames)
           top == frames[n]
           x   == top.ctx
           r   == cpu.lr
<1>1. /\ cpu \in CpuState /\ frames \in Seq(Frame)
      /\ ChainOf(frames, cpu, exc.active)
  BY TypedExc DEF NestInv, Chain
<1>2. frames # <<>>
  <2> SUFFICES ASSUME frames = <<>> PROVE FALSE
    OBVIOUS
  <2>1. Len(frames) = 0
    OBVIOUS
  <2>2. Ctx(frames, cpu, 1) = cpu
    BY <2>1 DEF Ctx
  <2>3. cpu.ipsr = NoException /\ ModeOK(cpu)
    BY <1>1, <2>1, <2>2 DEF ChainOf
  <2> QED
    BY <2>3 DEF ModeOK
<1>3. n \in Nat \ {0} /\ top \in Frame /\ x \in CpuState
  <2>1. n \in Nat /\ n # 0
    BY <1>1, <1>2
  <2>2. top \in Frame
    BY <1>1, <2>1
  <2> QED
    BY <2>1, <2>2 DEF Frame
<1>4. Sound(top) /\ Over(cpu, top) /\ ModeOK(x)
  <2>1. Ctx(frames, cpu, n) = x /\ Ctx(frames, cpu, n + 1) = cpu
    BY <1>3 DEF Ctx
  <2> QED
    BY <1>1, <1>3, <2>1 DEF ChainOf
<1> HIDE DEF top, x, n
<1>5. ReturnStack(r) = top.stack
  BY <1>3, <1>4 DEF Sound, Over, ReturnStack, ExcReturnValue, EntryStack, ModeOK,
     CpuState, ReturnHandler, ReturnMain, ReturnProcess, x
<1>6. cpu.msp = IF top.stack = "main" THEN top.sp ELSE x.msp
  <2>1. BaseSP = IF top.stack = "main" THEN top.sp ELSE x.msp
    BY <1>2 DEF BaseSP, top, x, n
  <2>2. Wrap(BaseSP - cpu.msp) = 0
    BY PushedWordsType DEF NestInv
  <2>3. cpu.msp \in Address /\ BaseSP \in Address
    BY <1>1, PushedWordsType DEF NestInv, CpuState
  <2>4. /\ BaseSP \in Nat /\ BaseSP < AddrMod
        /\ cpu.msp \in Nat /\ cpu.msp < AddrMod /\ AddrMod \in Nat
    BY <2>3, AddressArithmetic
  <2>5. BaseSP = cpu.msp
    BY <2>2, <2>4 DEF Wrap
  <2> QED
    BY <2>1, <2>5
<1>7. top.stack \in {"main", "process"} /\ (top.stack = "process" <=> r = ReturnProcess)
  BY <1>3, <1>5 DEF Frame, ReturnStack
<1>8. ReturnSP(cpu, r) = top.sp
  BY <1>4, <1>6, <1>7 DEF Over, ReturnSP
<1>9. f = top
  BY <1>2, <1>5, <1>8 DEF FrameAt, top, n
<1>10. PoppedSP(top.sp, top.align, StkAlign) = EntrySP(x)
  <2>1. EntrySP(x) \in Address
    BY <1>3 DEF EntrySP, CpuState
  <2>2. StkAlign \in {0, 1}
    BY ProcessorAssumption
  <2> QED
    BY <1>4, <2>1, <2>2, StackPointerRoundTrip DEF Sound, x
<1> DEFINE d == ExceptionReturn(cpu, top, r)
<1>11. /\ d.mode = IF r = ReturnHandler THEN "Handler" ELSE "Thread"
       /\ d.spsel = IF r = ReturnProcess THEN 1 ELSE 0
       /\ d.pc = top.pc /\ d.lr = top.lr /\ d.ipsr = top.ipsr
       /\ d.thumb = top.thumb
       /\ d.psp = IF r = ReturnProcess THEN PoppedSP(cpu.psp, top.align, StkAlign)
                  ELSE cpu.psp
       /\ d.msp = IF r # ReturnProcess THEN PoppedSP(cpu.msp, top.align, StkAlign)
                  ELSE cpu.msp
  BY <1>1 DEF ExceptionReturn, PopStack, CpuState
<1> HIDE DEF d
<1>12. d.mode = x.mode /\ d.spsel = x.spsel
  BY <1>3, <1>4, <1>11 DEF Over, ExcReturnValue, ModeOK, CpuState,
     ReturnHandler, ReturnMain, ReturnProcess, x
<1>13. d.psp = x.psp /\ d.msp = x.msp
  <2>1. CASE top.stack = "process"
    <3>1. EntrySP(x) = x.psp
      BY <1>4, <2>1 DEF Sound, EntrySP, x
    <3>2. cpu.psp = top.sp
      BY <1>4, <2>1 DEF Over
    <3> QED
      BY <1>6, <1>7, <1>10, <1>11, <2>1, <3>1, <3>2
  <2>2. CASE top.stack = "main"
    <3>1. EntrySP(x) = x.msp
      BY <1>4, <2>2 DEF Sound, EntrySP, x
    <3>2. cpu.psp = x.psp
      BY <1>4, <2>2 DEF Over, x
    <3> QED
      BY <1>6, <1>7, <1>10, <1>11, <2>2, <3>1, <3>2
  <2> QED
    BY <1>7, <2>1, <2>2
<1>14. Alike(x, d)
  BY <1>4, <1>11, <1>12, <1>13 DEF Alike, Sound, x
<1>15. ReturnConsistent(d)
  BY <1>4, <1>14 DEF ReturnConsistent, Alike, ModeOK
<1> QED
  BY <1>2, <1>3, <1>9, <1>14, <1>15 DEF d, x, top, n

LEMMA BxReturnChain ==
  ASSUME NestInv, ExecBxReturn
  PROVE  /\ Chain'
         /\ status' = status
         /\ [cpu' EXCEPT !.it = 0] = [frames[Len(frames)].ctx EXCEPT !.it = 0]
<1>1. PICK f \in FrameAt(ReturnStack(cpu.lr), ReturnSP(cpu, cpu.lr)) :
        Returning(f, AfterBxReturn(f))
  BY DEF ExecBxReturn
<1> DEFINE d == ExceptionReturn(cpu, f, cpu.lr)
<1>2. status # "panic" /\ cpu.mode = "Handler" /\ PushedWords = 0
  BY DEF ExecBxReturn, Executes, At
<1>3. /\ frames # <<>> /\ f = frames[Len(frames)] /\ f \in Frame
      /\ Alike(f.ctx, d) /\ ReturnConsistent(d)
  BY <1>2, ReturnRestores
<1>4. /\ frames \in Seq(Frame) /\ cpu \in CpuState
      /\ ChainOf(frames, cpu, exc.active)
  BY <1>2, TypedExc DEF NestInv, Chain
<1>5. d \in CpuState
  BY <1>3, <1>4, ExceptionReturnType DEF CpuState
<1> HIDE DEF d
<1>6. /\ cpu' = ITAdvance(d) /\ status' = status /\ frames' = Front(frames)
      /\ exc'.active = exc.active \ {cpu.ipsr}
  BY <1>1, <1>3 DEF Returning, AfterBxReturn, ClearActive, d
<1>7. cpu' \in CpuState /\ Alike(f.ctx, cpu')
  BY <1>3, <1>5, <1>6, ITAdvanceType DEF ITAdvance, Alike, CpuState
<1>8. f.ctx \in CpuState
  BY <1>3 DEF Frame
<1>9. [cpu' EXCEPT !.it = 0] = [f.ctx EXCEPT !.it = 0]
  BY <1>7, <1>8, AlikeEqual
<1>10. SameRole(f.ctx, cpu')
  BY <1>7 DEF Alike, SameRole
<1>11. ChainOf(Front(frames), cpu', exc.active \ {cpu.ipsr})
  BY <1>3, <1>4, <1>7, <1>10, PopChain
<1> QED
  BY <1>3, <1>6, <1>9, <1>11 DEF Chain

LEMMA ChecksChain ==
  ASSUME NestInv, PreFetchEntry \/ PreFetchNone \/ PostFetchEntry \/ PostFetchNone
                    \/ PostExecEntry \/ PostExecNone
  PROVE  Chain'
<1>1. cpu.pc \in Loc /\ local.pc \in Loc
  BY TypedExc DEF NestInv, CpuState, LocalState
<1>2. CASE PreFetchEntry \/ PostFetchEntry \/ PostExecEntry
  <2>1. status # "panic"
    BY <1>2 DEF PreFetchEntry, PostFetchEntry, PostExecEntry, At
  <2>2. \E instant \in {"PreFetch", "PostFetch", "PostExec"}, ret \in Loc :
          \E e \in TakenAt(instant) : ExceptionEntry(e, ret)
    BY <1>1, <1>2 DEF PreFetchEntry, PostFetchEntry, PostExecEntry
  <2> QED
    BY <2>1, <2>2, EntryChain
<1>3. CASE PreFetchNone \/ PostFetchNone \/ PostExecNone
  BY <1>3 DEF PreFetchNone, PostFetchNone, PostExecNone, NestInv, Chain
<1> QED
  BY <1>2, <1>3

LEMMA FetchChain ==
  ASSUME NestInv, FetchOk \/ FetchFault \/ FetchInvalidState
  PROVE  Chain'
BY DEF FetchOk, FetchFault, FetchInvalidState, Fetched, SetPending, NestInv, Chain

LEMMA LoopChain ==
  ASSUME NestInv, ExecExit \/ ExecErrorExit \/ SysTickStep \/ ExecAgain
  PROVE  Chain'
<1>1. CASE ExecExit \/ ExecErrorExit
  <2>1. /\ status # "panic" /\ frames' = frames /\ exc' = exc
        /\ cpu' = AdvancePcAndIt(cpu)
    BY <1>1 DEF ExecExit, ExecErrorExit, Leaves, Executes, At
  <2>2. /\ cpu \in CpuState /\ frames \in Seq(Frame)
        /\ ChainOf(frames, cpu, exc.active)
    BY <2>1, TypedExc DEF NestInv, Chain
  <2>3. ChainOf(frames, AdvancePcAndIt(cpu), exc.active)
    BY <2>2, AdvanceRole, AdvanceType, RunChain
  <2> QED
    BY <2>1, <2>3 DEF Chain
<1>2. CASE SysTickStep
  BY <1>2 DEF SysTickStep, SetPending, NestInv, Chain, At
<1>3. CASE ExecAgain
  BY <1>3 DEF ExecAgain, NestInv, Chain
<1> QED
  BY <1>1, <1>2, <1>3

------------------------------------------------------------------------------
(* The theorems *)

\* The firmware never returns from a handler with POP {.., pc}.
BxReturnsOnly == "popreturn" \notin Instrs

LEMMA NextNest ==
  ASSUME BxReturnsOnly
  PROVE  NestInv /\ [Next]_vars => NestInv'
<1> SUFFICES ASSUME NestInv, [Next]_vars PROVE Chain'
  BY NextTyped DEF NestInv
<1>1. ~ExecPopReturn
  BY DEF ExecPopReturn, Executes, BxReturnsOnly
<1>2. CASE Execute
  BY <1>1, <1>2, RaisingChain, QuietChain, FixUpChain, BxReturnChain, LoopChain
     DEF Execute
<1>3. CASE Next /\ ~Execute
  BY <1>3, ChecksChain, FetchChain, LoopChain, HostResetChain DEF Next, Step
<1>4. CASE UNCHANGED vars
  BY <1>4 DEF vars, NestInv, Chain
<1> QED
  BY <1>2, <1>3, <1>4

LEMMA ChainGivesNesting == NestInv => ActiveIsChain /\ PrioritiesNest
<1> SUFFICES ASSUME NestInv, status # "panic"
             PROVE  ActiveIsChain /\ PrioritiesNest
  BY DEF ActiveIsChain, PrioritiesNest
<1>1. ChainOf(frames, cpu, exc.active) /\ Len(frames) \in Nat
  BY TypedExc DEF NestInv, Chain
<1>2. \A k : Context(k) = Ctx(frames, cpu, k)
  BY DEF Context, Ctx, Depth
<1>3. exc.active = {c.ipsr : c \in Contexts} \ {NoException}
  <2>1. {c.ipsr : c \in Contexts} = {Ctx(frames, cpu, k).ipsr : k \in 1 .. Len(frames) + 1}
    BY <1>2 DEF Contexts, Depth
  <2> QED
    BY <1>1, <2>1 DEF ChainOf
<1>4. Context(1).ipsr = NoException
  BY <1>1, <1>2 DEF ChainOf
<1>5. \A c \in Contexts : c.mode = "Handler" <=> c.ipsr # NoException
  BY <1>1, <1>2 DEF ChainOf, ModeOK, Contexts, Depth
<1>6. PrioritiesNest
  BY <1>1, <1>2 DEF PrioritiesNest, ChainOf, Depth
<1> QED
  BY <1>3, <1>4, <1>5, <1>6 DEF ActiveIsChain

\* ActiveIsChain: the flags of the emulator and the frames in guest memory
\* agree, however deep exceptions nest.
THEOREM ActiveFlagsCorrect ==
  ASSUME BxReturnsOnly
  PROVE  Spec => []ActiveIsChain
<1>1. Init => NestInv
  BY InitTyped, InitChain DEF NestInv
<1>2. NestInv => ActiveIsChain
  BY ChainGivesNesting
<1>3. NestInv /\ [Next]_vars => NestInv'
  BY NextNest
<1> QED
  BY <1>1, <1>2, <1>3, PTL DEF Spec

\* PrioritiesNest: CheckExceptions only ever preempts less urgent code.
THEOREM PreemptionStrict ==
  ASSUME BxReturnsOnly
  PROVE  Spec => []PrioritiesNest
<1>1. Init => NestInv
  BY InitTyped, InitChain DEF NestInv
<1>2. NestInv => PrioritiesNest
  BY ChainGivesNesting
<1>3. NestInv /\ [Next]_vars => NestInv'
  BY NextNest
<1> QED
  BY <1>1, <1>2, <1>3, PTL DEF Spec

\* While the emulator runs, only the return instructions remove a frame.
LEMMA OnlyReturnsPop ==
  ASSUME NestInv, Next, status = "running", ~ExecBxReturn, ~ExecPopReturn
  PROVE  Len(frames') >= Len(frames)
<1>1. frames \in Seq(Frame) /\ cpu.pc \in Loc /\ local.pc \in Loc
  BY TypedExc DEF NestInv, CpuState, LocalState
<1>2. CASE PreFetchEntry \/ PostFetchEntry \/ PostExecEntry
  <2>1. \E g \in Frame : frames' = Append(frames, g)
    <3>1. \E ret \in Loc : frames' = Append(frames, PushedFrame(cpu, ret))
      BY <1>1, <1>2 DEF PreFetchEntry, PostFetchEntry, PostExecEntry, ExceptionEntry
    <3> QED
      BY <3>1, TypedExc, PushedFrameType DEF NestInv
  <2> QED
    BY <1>1, <2>1
<1>3. CASE ExecFixUp
  BY <1>1, <1>3 DEF ExecFixUp
<1>4. CASE ~(PreFetchEntry \/ PostFetchEntry \/ PostExecEntry \/ ExecFixUp)
  <2>1. frames' = frames
    BY <1>4 DEF Next, HostReset, Step, Execute, PreFetchNone, PostFetchNone, PostExecNone,
       FetchOk, FetchFault, FetchInvalidState, Fetched, ExecPlain, ExecBranch,
       ExecIt, ExecSvc, ExecBkpt, ExecDataFault, ExecDivByZero, ExecBxToArm,
       ExecPush, ExecPop, ExecMsrControl, ExecExit, ExecErrorExit, Leaves,
       SysTickStep, ExecAgain
  <2> QED
    BY <1>1, <2>1
<1> QED
  BY <1>2, <1>3, <1>4

\* RestoresContext: whatever nested in between, a return gives the interrupted
\* code its registers, mode, stack pointers and stack selection back.
THEOREM ContextRestored ==
  ASSUME BxReturnsOnly
  PROVE  Spec => RestoresContext
<1>1. Init => NestInv
  BY InitTyped, InitChain DEF NestInv
<1>2. NestInv /\ [Next]_vars => NestInv'
  BY NextNest
<1>3. NestInv /\ [Next]_vars =>
        [Len(frames') < Len(frames) /\ status = "running" =>
           [cpu' EXCEPT !.it = 0] = [frames[Depth].ctx EXCEPT !.it = 0]]_vars
  <2> SUFFICES ASSUME NestInv, Next, Len(frames') < Len(frames), status = "running"
               PROVE  [cpu' EXCEPT !.it = 0] = [frames[Depth].ctx EXCEPT !.it = 0]
    OBVIOUS
  <2>1. ~ExecPopReturn
    BY DEF ExecPopReturn, Executes, BxReturnsOnly
  <2>2. Len(frames) \in Nat /\ Len(frames') \in Nat
    BY NextTyped, TypedExc DEF NestInv, Typed, TypeOK
  <2>3. ExecBxReturn
    BY <2>1, <2>2, OnlyReturnsPop
  <2> QED
    BY <2>3, BxReturnChain DEF Depth
<1> QED
  BY <1>1, <1>2, <1>3, PTL DEF Spec, RestoresContext

\* NoPanic: when, besides, no instruction asks to end with an error and every
\* vector can be read, the emulator never gives up.
THEOREM NeverPanics ==
  ASSUME BxReturnsOnly, "errexit" \notin Instrs,
         \A e \in Exc : Vector[e] # "unmapped"
  PROVE  Spec => []NoPanic
<1>1. Init => NestInv /\ NoPanic
  BY InitTyped, InitChain DEF NestInv, Init, NoPanic
<1>2. NestInv /\ [Next]_vars => NestInv'
  BY NextNest
<1>3. NestInv /\ NoPanic /\ [Next]_vars => NoPanic'
  <2> SUFFICES ASSUME NestInv, NoPanic, [Next]_vars PROVE NoPanic'
    OBVIOUS
  <2>1. CASE ExecBxReturn
    BY <2>1, BxReturnChain DEF NoPanic
  <2>2. CASE PreFetchEntry \/ PostFetchEntry \/ PostExecEntry
    <3>1. \E instant, e, ret : e \in TakenAt(instant) /\ ExceptionEntry(e, ret)
      BY <2>2 DEF PreFetchEntry, PostFetchEntry, PostExecEntry
    <3> QED
      BY <3>1 DEF ExceptionEntry, TakenAt, NoPanic
  <2>3. CASE SysTickStep \/ ExecExit \/ ExecAgain \/ HostReset \/ UNCHANGED vars
    BY <2>3 DEF SysTickStep, ExecExit, Leaves, ExecAgain, HostReset, NoPanic, vars
  <2>4. ~ExecPopReturn /\ ~ExecErrorExit
    BY DEF ExecPopReturn, ExecErrorExit, Executes, BxReturnsOnly
  <2> QED
    BY <2>1, <2>2, <2>3, <2>4 DEF Next, Step, Execute, PreFetchNone,
       PostFetchNone, PostExecNone, FetchOk, FetchFault, FetchInvalidState,
       Fetched, ExecPlain, ExecBranch, ExecIt, ExecSvc, ExecBkpt, ExecDataFault,
       ExecDivByZero, ExecBxToArm, ExecPush, ExecPop, ExecMsrControl, ExecFixUp,
       Retire, NoPanic
<1> QED
  BY <1>1, <1>2, <1>3, PTL DEF Spec

------------------------------------------------------------------------------
(* Precise faults.  When code that a fault cannot preempt raises none, and   *)
(* no vector lacks the Thumb bit, a fault is taken in the step that raises   *)
(* it, so the address kept in pc_this_instr is still one of the code that    *)
(* raised it.                                                                *)

Faults == {HardFault, BusFault, UsageFault}

FaultsPreempt ==
  /\ BxReturnsOnly
  /\ BlockedFaults = FALSE
  /\ \A e \in Exc : Vector[e] # "arm"

Clean == exc.pending \cap Faults = {}

\* A single fault, which nothing keeps from being taken.
OneFault ==
  \E f \in Faults : /\ exc.pending \cap Faults \subseteq {f}
                    /\ f \in exc.pending => Pending = {f}

\* The context is in its own code, and a clear T bit is reported in it.
InPlace(c) ==
  /\ c.pc.ctx = c.ipsr
  /\ c.thumb = 0 => Prio[UsageFault] < ExecutingPriority(c.ipsr)

AllInPlace ==
  status # "panic" => \A k \in 1 .. Len(frames) + 1 : InPlace(Ctx(frames, cpu, k))

Prompt ==
  /\ phase \in {"PreFetch", "Fetch", "Execute", "Tick"} => Clean
  /\ phase \in {"PostFetch", "PostExec"} => OneFault
  /\ phase = "PostFetch" /\ local.raw = "none" => UsageFault \in exc.pending
  /\ phase = "Execute" => local.raw # "none"
  /\ status # "panic" /\ phase \in {"Fetch", "PostFetch", "Execute"} => local.pc.ctx = cpu.ipsr
  /\ status # "panic" /\ phase = "PostExec" /\ ~Clean => local.pc.ctx = cpu.ipsr

PreciseInv == NestInv /\ Served /\ AllInPlace /\ Prompt

LEMMA RunningInPlace ==
  ASSUME PreciseInv, status # "panic"
  PROVE  InPlace(cpu)
<1>1. Len(frames) \in Nat
  BY TypedExc DEF PreciseInv, NestInv
<1>2. Ctx(frames, cpu, Len(frames) + 1) = cpu
  BY <1>1 DEF Ctx
<1> QED
  BY <1>1, <1>2 DEF PreciseInv, AllInPlace

LEMMA StaysInPlace ==
  ASSUME PreciseInv, status # "panic", frames' = frames, InPlace(cpu')
  PROVE  AllInPlace'
BY DEF PreciseInv, AllInPlace, Ctx

\* What preempts the running context is not active.
LEMMA PreemptorInactive ==
  ASSUME NestInv, status # "panic", NEW f \in Exc, Prio[f] < ExecutingPriority(cpu.ipsr)
  PROVE  f \notin exc.active
<1> DEFINE n == Len(frames)
<1>1. ChainOf(frames, cpu, exc.active) /\ n \in Nat /\ cpu \in CpuState
  BY TypedExc DEF NestInv, Chain
<1>2. Ctx(frames, cpu, n + 1) = cpu
  BY <1>1 DEF Ctx
<1> SUFFICES ASSUME f \in exc.active PROVE FALSE
  OBVIOUS
<1>3. PICK k \in 1 .. n + 1 : f = Ctx(frames, cpu, k).ipsr
  BY <1>1 DEF ChainOf
<1>4. ExecutingPriority(f) = Prio[f] /\ Prio[f] \in Int
  BY PriorityIsInt DEF ExecutingPriority
<1>5. k < n + 1 => ExecutingPriority(cpu.ipsr) < ExecutingPriority(f)
  BY <1>1, <1>2, <1>3 DEF ChainOf
<1>6. ExecutingPriority(cpu.ipsr) \in Int
  BY <1>1, PriorityType
<1> QED
  BY <1>1, <1>2, <1>3, <1>4, <1>5, <1>6

LEMMA RaisesOne ==
  ASSUME PreciseInv, status # "panic", phase \in {"Fetch", "Execute"}, NEW f \in Faults,
         Prio[f] < ExecutingPriority(cpu.ipsr), exc' = SetPending(exc, f),
         cpu'.ipsr = cpu.ipsr
  PROVE  OneFault' /\ f \in exc'.pending
<1>1. f \in Exc /\ f \notin exc.active
  BY ExcAssumption, PreemptorInactive DEF PreciseInv, Faults
<1>2. /\ exc'.pending = exc.pending \cup {f} /\ exc'.active = exc.active
  BY TypedExc DEF PreciseInv, NestInv, SetPending, ExcStates
<1>3. Pending = {} /\ Clean
  BY DEF PreciseInv, Served, Prompt
<1>4. Pending' = {f}
  BY <1>1, <1>2, <1>3 DEF Pending, Candidates
<1>5. exc'.pending \cap Faults \subseteq {f}
  BY <1>2, <1>3 DEF Clean
<1> QED
  BY <1>2, <1>4, <1>5 DEF OneFault

\* An entry from an address of the running context.
LEMMA EntryInPlace ==
  ASSUME FaultsPreempt, PreciseInv, status # "panic", NEW instant, NEW e \in TakenAt(instant),
         NEW ret \in Loc, ret.ctx = cpu.ipsr, ExceptionEntry(e, ret)
  PROVE  /\ AllInPlace'
         /\ status' # "panic" => cpu'.pc.ctx = cpu'.ipsr
<1> SUFFICES ASSUME status' # "panic"
             PROVE  AllInPlace' /\ cpu'.pc.ctx = cpu'.ipsr
  BY DEF AllInPlace
<1> DEFINE g == PushedFrame(cpu, ret)
           n == Len(frames)
<1>1. /\ cpu \in CpuState /\ frames \in Seq(Frame) /\ n \in Nat /\ exc \in ExcStates
  BY TypedExc DEF PreciseInv, NestInv
<1>2. e \in Exc
  BY DEF TakenAt
<1>3. Vector[e] = "thumb"
  BY <1>2, ProcessorAssumption DEF ExceptionEntry, FaultsPreempt
<1>4. /\ cpu' = ExceptionTaken(PushStack(cpu), e) /\ frames' = Append(frames, g)
  BY <1>3 DEF ExceptionEntry
<1>5. PushStack(cpu) \in CpuState
  BY <1>1, PushStackType
<1>6. cpu'.pc.ctx = e /\ cpu'.ipsr = e /\ cpu'.thumb = 1
  BY <1>3, <1>4, <1>5 DEF ExceptionTaken, CpuState
<1>7. InPlace(cpu')
  BY <1>6 DEF InPlace
<1>8. InPlace(g.ctx)
  <2>1. g.ctx = [cpu EXCEPT !.pc = ret]
    BY DEF PushedFrame
  <2>2. g.ctx.pc = ret /\ g.ctx.ipsr = cpu.ipsr /\ g.ctx.thumb = cpu.thumb
    BY <1>1, <2>1 DEF CpuState
  <2> QED
    BY <2>2, RunningInPlace DEF InPlace
<1> HIDE DEF g
<1>9. g \in Frame
  BY <1>1, PushedFrameType DEF g
<1>10. ASSUME NEW k \in 1 .. Len(frames') + 1
       PROVE  InPlace(Ctx(frames', cpu', k))
  <2>1. Len(frames') = n + 1 /\ k \in 1 .. n + 2
    BY <1>1, <1>4, <1>9
  <2>2. CASE k <= n
    <3>1. frames'[k] = frames[k]
      BY <1>1, <1>4, <1>9, <2>1, <2>2
    <3>2. Ctx(frames', cpu', k) = Ctx(frames, cpu, k)
      BY <1>1, <2>1, <2>2, <3>1 DEF Ctx
    <3> QED
      BY <1>1, <2>1, <2>2, <3>2 DEF PreciseInv, AllInPlace
  <2>3. CASE k = n + 1
    <3>1. frames'[k] = g
      BY <1>1, <1>4, <1>9, <2>3
    <3> QED
      BY <1>1, <1>8, <2>1, <2>3, <3>1 DEF Ctx
  <2>4. CASE k = n + 2
    BY <1>1, <1>7, <2>1, <2>4 DEF Ctx
  <2> QED
    BY <1>1, <2>1, <2>2, <2>3, <2>4
<1> QED
  BY <1>6, <1>10 DEF AllInPlace

\* The instants after the fetch and after the execution, of the exceptions that the code raises.
LEMMA LateInstants ==
  ASSUME NEW e \in RaisedByCode
  PROVE  /\ CanExecute("PostFetch", e) <=> e \in {BusFault, UsageFault}
         /\ CanExecute("PostExec", e) <=> e \in Faults
<1>1. CanExecute("PostFetch", e) <=> e \in {4, 5, 6}
  BY DEF CanExecute
<1>2. CanExecute("PostExec", e) <=> e \in {3, 4, 5, 6, 12}
  BY DEF CanExecute
<1> QED
  BY <1>1, <1>2 DEF RaisedByCode, Faults, HardFault, BusFault, UsageFault, SVCall, SysTick

LEMMA EntryPrecise ==
  ASSUME FaultsPreempt, PreciseInv, PreFetchEntry \/ PostFetchEntry \/ PostExecEntry
  PROVE  AllInPlace' /\ Prompt'
<1>1. /\ status = "running" /\ cpu.pc \in Loc /\ local.pc \in Loc /\ InPlace(cpu)
      /\ exc.pending \subseteq RaisedByCode
  BY TypedExc, RunningInPlace
  DEF PreciseInv, NestInv, Served, PreFetchEntry, PostFetchEntry, PostExecEntry, At,
      CpuState, LocalState
<1>2. ASSUME NEW instant, NEW e \in TakenAt(instant), NEW ret, ExceptionEntry(e, ret)
      PROVE  /\ exc'.pending = exc.pending \ {e}
             /\ e \in Pending
             /\ CanExecute(instant, e)
  <2>1. Typed /\ e \in Exc /\ Takes(exc, cpu.ipsr, instant, e)
    BY DEF PreciseInv, NestInv, TakenAt
  <2>2. e \in Pending /\ CanExecute(instant, e)
    BY <2>1 DEF Takes, Selected, Pending
  <2>3. exc'.pending = exc.pending \ {e}
    BY <1>2 DEF ExceptionEntry, SetActive, ClearPending
  <2> QED
    BY <2>2, <2>3
<1>3. CASE PreFetchEntry
  <2>1. PICK e \in TakenAt("PreFetch") : ExceptionEntry(e, cpu.pc)
    BY <1>3 DEF PreFetchEntry
  <2>2. AllInPlace' /\ (status' # "panic" => cpu'.pc.ctx = cpu'.ipsr)
    BY <1>1, <2>1, EntryInPlace DEF InPlace
  <2>3. Clean'
    BY <1>2, <1>3, <2>1 DEF PreciseInv, Prompt, PreFetchEntry, At, Clean
  <2>4. phase' = "Fetch" /\ local'.pc = cpu'.pc
    BY <1>3 DEF PreFetchEntry
  <2> QED
    BY <2>2, <2>3, <2>4 DEF Prompt
<1>4. CASE PostFetchEntry \/ PostExecEntry
  <2>1. PICK instant \in {"PostFetch", "PostExec"} :
          /\ phase = instant
          /\ \E e \in TakenAt(instant) : ExceptionEntry(e, local.pc)
    BY <1>4 DEF PostFetchEntry, PostExecEntry, At
  <2>2. PICK e \in TakenAt(instant) : ExceptionEntry(e, local.pc)
    BY <2>1
  <2>3. e \in Pending /\ e \in exc.pending /\ CanExecute(instant, e)
    BY <1>2, <2>2 DEF Pending, Candidates
  <2>4. e \in Faults
    BY <1>1, <2>1, <2>3, LateInstants DEF Faults
  <2>5. PICK f \in Faults : /\ exc.pending \cap Faults \subseteq {f}
                            /\ f \in exc.pending => Pending = {f}
    BY <2>1 DEF PreciseInv, Prompt, OneFault
  <2>6. e = f
    BY <2>3, <2>4, <2>5
  <2>7. Clean'
    BY <1>2, <2>2, <2>5, <2>6 DEF Clean
  <2>8. ~Clean
    BY <2>3, <2>4 DEF Clean
  <2>9. local.pc.ctx = cpu.ipsr
    BY <1>1, <2>1, <2>8 DEF PreciseInv, Prompt
  <2>10. AllInPlace'
    BY <1>1, <2>2, <2>9, EntryInPlace
  <2>11. phase' = "Tick"
    BY <1>4 DEF PostFetchEntry, PostExecEntry
  <2> QED
    BY <2>7, <2>10, <2>11 DEF Prompt
<1> QED
  BY <1>3, <1>4

\* A fault that is left after a check could have been taken.
LEMMA NoEntryClean ==
  ASSUME PreciseInv, NEW instant \in {"PostFetch", "PostExec"}, phase = instant,
         TakenAt(instant) = {}, status # "panic"
  PROVE  Clean
<1>1. PICK f \in Faults : /\ exc.pending \cap Faults \subseteq {f}
                          /\ f \in exc.pending => Pending = {f}
  BY DEF PreciseInv, Prompt, OneFault
<1> SUFFICES ASSUME f \in exc.pending PROVE FALSE
  BY <1>1 DEF Clean
<1>2. Pending = {f} /\ exc.pending \subseteq RaisedByCode
  BY <1>1 DEF PreciseInv, Served
<1>3. Selected(exc, cpu.ipsr, f)
  BY <1>2, SelectedExists
<1>4. CASE CanExecute(instant, f)
  <2>1. exc.count # 0
    BY CountNonzero DEF PreciseInv, NestInv
  <2>2. f \in Exc
    BY ExcAssumption DEF Faults
  <2> QED
    BY <1>3, <1>4, <2>1, <2>2 DEF TakenAt, Takes
<1>5. CASE ~CanExecute(instant, f)
  <2>1. instant = "PostFetch" /\ f = HardFault
    BY <1>1, <1>2, <1>5, LateInstants DEF Faults
  <2>2. \E g \in {BusFault, UsageFault} : Pending \subseteq {g}
    BY <2>1 DEF PreciseInv, Served
  <2> QED
    BY <1>2, <2>1, <2>2 DEF HardFault, BusFault, UsageFault
<1> QED
  BY <1>4, <1>5

LEMMA NoEntryPrecise ==
  ASSUME PreciseInv, PreFetchNone \/ PostFetchNone \/ PostExecNone
  PROVE  AllInPlace' /\ Prompt'
<1>1. /\ exc' = exc /\ cpu' = cpu /\ frames' = frames /\ status' = status
      /\ status = "running"
  BY DEF PreFetchNone, PostFetchNone, PostExecNone, At
<1>2. AllInPlace' /\ InPlace(cpu)
  BY <1>1, RunningInPlace, StaysInPlace
<1>3. CASE PreFetchNone
  <2>1. phase' = "Fetch" /\ local'.pc = cpu.pc /\ Clean
    BY <1>3 DEF PreFetchNone, At, PreciseInv, Prompt
  <2> QED
    BY <1>1, <1>2, <2>1 DEF Prompt, Clean, InPlace
<1>4. CASE PostFetchNone
  <2>1. phase = "PostFetch" /\ phase' = "Execute" /\ local' = local
    BY <1>4 DEF PostFetchNone, At
  <2>2. Clean
    BY <1>1, <1>4, <2>1, NoEntryClean DEF PostFetchNone
  <2>3. local.raw # "none" /\ local.pc.ctx = cpu.ipsr
    BY <1>1, <2>1, <2>2 DEF PreciseInv, Prompt, Clean, Faults
  <2> QED
    BY <1>1, <1>2, <2>1, <2>2, <2>3 DEF Prompt, Clean
<1>5. CASE PostExecNone
  <2>1. phase = "PostExec" /\ phase' = "Tick"
    BY <1>5 DEF PostExecNone, At
  <2>2. Clean
    BY <1>1, <1>5, <2>1, NoEntryClean DEF PostExecNone
  <2> QED
    BY <1>1, <1>2, <2>1, <2>2 DEF Prompt, Clean
<1> QED
  BY <1>3, <1>4, <1>5

LEMMA FetchPrecise ==
  ASSUME FaultsPreempt, PreciseInv, FetchOk \/ FetchFault \/ FetchInvalidState
  PROVE  AllInPlace' /\ Prompt'
<1>1. /\ status = "running" /\ phase = "Fetch" /\ cpu' = cpu /\ frames' = frames
      /\ status' = status /\ phase' = "PostFetch" /\ local'.pc = local.pc
  BY TypedExc DEF FetchOk, FetchFault, FetchInvalidState, Fetched, At, PreciseInv, NestInv,
     LocalState
<1>2. AllInPlace' /\ InPlace(cpu)
  BY <1>1, RunningInPlace, StaysInPlace
<1>3. Clean /\ local.pc.ctx = cpu.ipsr
  BY <1>1 DEF PreciseInv, Prompt
<1>4. OneFault' /\ (local'.raw = "none" => UsageFault \in exc'.pending)
  <2>1. CASE FetchOk
    <3>1. exc' = exc /\ local'.raw = "ok"
      BY <2>1, TypedExc DEF FetchOk, Fetched, PreciseInv, NestInv, LocalState
    <3> QED
      BY <1>3, <3>1 DEF OneFault, Clean, Faults
  <2>2. CASE FetchFault
    <3>1. exc' = SetPending(exc, BusFault) /\ local'.raw = "zero"
      BY <2>2, TypedExc DEF FetchFault, Fetched, PreciseInv, NestInv, LocalState
    <3>2. Prio[BusFault] < ExecutingPriority(cpu.ipsr)
      BY <2>2 DEF FetchFault, MayRaise, FaultsPreempt
    <3> QED
      BY <1>1, <3>1, <3>2, RaisesOne DEF Faults
  <2>3. CASE FetchInvalidState
    <3>1. exc' = SetPending(exc, UsageFault)
      BY <2>3 DEF FetchInvalidState
    <3>2. Prio[UsageFault] < ExecutingPriority(cpu.ipsr)
      BY <1>2, <2>3 DEF FetchInvalidState, InPlace
    <3> QED
      BY <1>1, <3>1, <3>2, RaisesOne DEF Faults
  <2> QED
    BY <2>1, <2>2, <2>3
<1> QED
  BY <1>1, <1>2, <1>3, <1>4 DEF Prompt

SamePlace(c, d) == d.ipsr = c.ipsr /\ d.pc.ctx = c.pc.ctx /\ d.thumb = c.thumb

LEMMA AdvancePlace ==
  ASSUME NEW c \in CpuState
  PROVE  SamePlace(c, AdvancePcAndIt(c)) /\ SamePlace(c, ITAdvance(c))
         /\ SamePlace(c, AdvanceInstr(c))
BY DEF AdvancePcAndIt, ITAdvance, AdvanceInstr, SamePlace, CpuState, Loc

LEMMA PlaceTransitive ==
  ASSUME NEW b, NEW c, NEW d, SamePlace(b, c), SamePlace(c, d)
  PROVE  SamePlace(b, d)
BY DEF SamePlace

LEMMA MoveSPPlace ==
  ASSUME NEW c \in CpuState, NEW delta \in {-4, 4}
  PROVE  SamePlace(c, MoveSP(c, delta))
BY DEF MoveSP, SamePlace, CpuState

LEMMA QuietPlace ==
  ASSUME NestInv, ExecPlain \/ ExecBranch \/ ExecIt \/ ExecPush \/ ExecPop \/ ExecMsrControl
  PROVE  SamePlace(cpu, cpu')
<1>1. cpu \in CpuState
  BY TypedExc DEF NestInv
<1>2. CASE ExecPlain
  BY <1>1, <1>2, AdvancePlace DEF ExecPlain, Retire
<1>3. CASE ExecBranch
  <2>1. PICK off \in 0 .. LastOff : cpu' = ITAdvance([cpu EXCEPT !.pc.off = off])
    BY <1>3 DEF ExecBranch, Retire
  <2> DEFINE b == [cpu EXCEPT !.pc.off = off]
  <2>2. b \in CpuState /\ SamePlace(cpu, b)
    BY <1>1 DEF CpuState, Loc, SamePlace
  <2> QED
    BY <2>1, <2>2, AdvancePlace, PlaceTransitive
<1>4. CASE ExecIt
  <2>1. PICK n \in 1 .. MaxIT : cpu' = AdvanceInstr([cpu EXCEPT !.it = n])
    BY <1>4 DEF ExecIt, Retire
  <2> DEFINE b == [cpu EXCEPT !.it = n]
  <2>2. b \in CpuState /\ SamePlace(cpu, b)
    BY <1>1, ProcessorAssumption DEF CpuState, SamePlace
  <2> QED
    BY <2>1, <2>2, AdvancePlace, PlaceTransitive
<1>5. CASE ExecPush
  BY <1>1, <1>5, MoveSPType, MoveSPPlace, AdvancePlace, PlaceTransitive DEF ExecPush, Retire
<1>6. CASE ExecPop
  BY <1>1, <1>6, MoveSPType, MoveSPPlace, AdvancePlace, PlaceTransitive DEF ExecPop, Retire
<1>7. CASE ExecMsrControl
  <2>1. PICK bit \in {0, 1} :
          cpu' = AdvancePcAndIt(
            IF cpu.mode = "Thread" THEN [cpu EXCEPT !.spsel = bit] ELSE cpu)
    BY <1>7 DEF ExecMsrControl, Retire
  <2> DEFINE b == IF cpu.mode = "Thread" THEN [cpu EXCEPT !.spsel = bit] ELSE cpu
  <2>2. b \in CpuState /\ SamePlace(cpu, b)
    BY <1>1 DEF CpuState, SamePlace
  <2> QED
    BY <2>1, <2>2, AdvancePlace, PlaceTransitive
<1> QED
  BY <1>2, <1>3, <1>4, <1>5, <1>6, <1>7

LEMMA QuietPrecise ==
  ASSUME FaultsPreempt, PreciseInv,
         ExecPlain \/ ExecBranch \/ ExecIt \/ ExecBxToArm \/ ExecPush \/ ExecPop
           \/ ExecMsrControl
  PROVE  AllInPlace' /\ Prompt'
<1>1. /\ status = "running" /\ phase = "Execute" /\ frames' = frames /\ exc' = exc
      /\ status' = status /\ phase' = "PostExec"
  BY DEF ExecPlain, ExecBranch, ExecIt, ExecBxToArm, ExecPush, ExecPop, ExecMsrControl,
     Executes, At, Retire
<1>2. InPlace(cpu) /\ cpu \in CpuState
  BY <1>1, RunningInPlace, TypedExc DEF PreciseInv, NestInv
<1>3. InPlace(cpu')
  <2>1. CASE ExecBxToArm
    <3>1. PICK off \in 0 .. LastOff :
            cpu' = ITAdvance([cpu EXCEPT !.thumb = 0, !.pc.off = off])
      BY <2>1 DEF ExecBxToArm, Retire
    <3> DEFINE b == [cpu EXCEPT !.thumb = 0, !.pc.off = off]
    <3>2. b \in CpuState /\ b.ipsr = cpu.ipsr /\ b.pc.ctx = cpu.pc.ctx
      BY <1>2 DEF CpuState, Loc
    <3>3. cpu'.ipsr = cpu.ipsr /\ cpu'.pc.ctx = cpu.pc.ctx
      BY <3>1, <3>2, AdvancePlace DEF SamePlace
    <3>4. Prio[UsageFault] < ExecutingPriority(cpu.ipsr)
      BY <2>1 DEF ExecBxToArm, MayRaise, FaultsPreempt
    <3> QED
      BY <1>2, <3>3, <3>4 DEF InPlace
  <2>2. CASE ~ExecBxToArm
    BY <1>2, <2>2, QuietPlace DEF PreciseInv, SamePlace, InPlace
  <2> QED
    BY <2>1, <2>2
<1>4. Clean /\ Clean'
  BY <1>1 DEF PreciseInv, Prompt, Clean
<1>5. OneFault'
  BY <1>4 DEF OneFault, Clean, Faults
<1> QED
  BY <1>1, <1>3, <1>4, <1>5, StaysInPlace DEF Prompt

LEMMA RaisingPrecise ==
  ASSUME FaultsPreempt, PreciseInv, ExecSvc \/ ExecBkpt \/ ExecDataFault \/ ExecDivByZero
  PROVE  AllInPlace' /\ Prompt'
<1>1. /\ status = "running" /\ phase = "Execute" /\ frames' = frames
      /\ status' = status /\ phase' = "PostExec" /\ local' = local
      /\ cpu' = AdvancePcAndIt(cpu)
  BY DEF ExecSvc, ExecBkpt, ExecDataFault, ExecDivByZero, Executes, At, Retire
<1>2. InPlace(cpu) /\ cpu \in CpuState /\ Clean /\ local.pc.ctx = cpu.ipsr
  BY <1>1, RunningInPlace, TypedExc DEF PreciseInv, NestInv, Prompt
<1>3. SamePlace(cpu, cpu')
  BY <1>1, <1>2, AdvancePlace
<1>4. InPlace(cpu') /\ local'.pc.ctx = cpu'.ipsr
  BY <1>1, <1>2, <1>3 DEF InPlace, SamePlace
<1>5. OneFault'
  <2>1. CASE ExecSvc
    <3>1. exc'.pending = exc.pending \cup {SVCall} \/ exc'.pending = exc.pending
      BY <2>1 DEF ExecSvc, SetPending
    <3>2. exc'.pending \cap Faults = {}
      BY <1>2, <3>1 DEF Clean, Faults, HardFault, BusFault, UsageFault, SVCall
    <3> QED
      BY <3>2 DEF OneFault, Faults
  <2>2. CASE ExecBkpt \/ ExecDataFault \/ ExecDivByZero
    <3>1. PICK f \in Faults : exc' = SetPending(exc, f) /\ MayRaise(f)
      BY <2>2 DEF ExecBkpt, ExecDataFault, ExecDivByZero, Faults
    <3>2. Prio[f] < ExecutingPriority(cpu.ipsr)
      BY <3>1 DEF MayRaise, FaultsPreempt
    <3> QED
      BY <1>1, <1>3, <3>1, <3>2, RaisesOne DEF SamePlace
  <2> QED
    BY <2>1, <2>2
<1> QED
  BY <1>1, <1>4, <1>5, StaysInPlace DEF Prompt

LEMMA FixUpPrecise ==
  ASSUME FaultsPreempt, PreciseInv, ExecFixUp
  PROVE  AllInPlace' /\ Prompt'
<1> DEFINE n    == Len(frames)
           top  == frames[n]
           next == AdvanceInstr(top).pc
           new  == [top EXCEPT !.pc = next, !.thumb = 1, !.ctx.pc = next, !.ctx.thumb = 1]
<1>1. /\ status = "running" /\ phase = "Execute" /\ exc' = exc /\ frames # <<>>
      /\ status' = status /\ phase' = "PostExec" /\ cpu' = AdvancePcAndIt(cpu)
      /\ frames' = [frames EXCEPT ![n] = new]
  BY DEF ExecFixUp, Executes, At, Retire
<1>2. /\ InPlace(cpu) /\ cpu \in CpuState /\ frames \in Seq(Frame) /\ Clean
      /\ ChainOf(frames, cpu, exc.active)
  BY <1>1, RunningInPlace, TypedExc DEF PreciseInv, NestInv, Prompt, Chain
<1>3. InPlace(cpu')
  BY <1>1, <1>2, AdvancePlace DEF InPlace, SamePlace
<1>4. n \in Nat \ {0} /\ top \in Frame
  BY <1>1, <1>2
<1>5. Sound(top) /\ InPlace(top.ctx)
  <2>1. Ctx(frames, cpu, n) = top.ctx
    BY <1>4 DEF Ctx
  <2> QED
    BY <1>1, <1>2, <1>4, <2>1 DEF ChainOf, PreciseInv, AllInPlace
<1>6. new.ctx.pc.ctx = new.ctx.ipsr /\ new.ctx.thumb = 1
  <2>1. next.ctx = top.pc.ctx
    BY <1>4 DEF AdvanceInstr, Frame, Loc
  <2>2. new.ctx.pc = next /\ new.ctx.ipsr = top.ctx.ipsr /\ new.ctx.thumb = 1
    BY <1>4 DEF Frame, CpuState
  <2> QED
    BY <1>5, <2>1, <2>2 DEF Sound, InPlace
<1>7. InPlace(new.ctx)
  BY <1>6 DEF InPlace
<1> HIDE DEF new, top, next
<1>8. ASSUME NEW k \in 1 .. Len(frames') + 1
      PROVE  InPlace(Ctx(frames', cpu', k))
  <2>1. Len(frames') = n /\ frames'[n] = new
        /\ \A j \in 1 .. n : j # n => frames'[j] = frames[j]
    BY <1>1, <1>2, <1>4
  <2>2. CASE k < n
    <3>1. Ctx(frames', cpu', k) = Ctx(frames, cpu, k)
      BY <1>4, <2>1, <2>2 DEF Ctx
    <3> QED
      BY <1>1, <1>4, <2>1, <2>2, <3>1 DEF PreciseInv, AllInPlace
  <2>3. CASE k = n
    BY <1>4, <1>7, <2>1, <2>3 DEF Ctx
  <2>4. CASE k = n + 1
    BY <1>3, <1>4, <2>1, <2>4 DEF Ctx
  <2> QED
    BY <1>4, <2>1, <2>2, <2>3, <2>4
<1>9. Clean' /\ OneFault'
  BY <1>1, <1>2 DEF Clean, OneFault, Faults
<1> QED
  BY <1>1, <1>8, <1>9 DEF AllInPlace, Prompt

LEMMA BxReturnPrecise ==
  ASSUME FaultsPreempt, PreciseInv, ExecBxReturn
  PROVE  AllInPlace' /\ Prompt'
<1> DEFINE n == Len(frames)
           x == frames[n].ctx
<1>1. /\ status = "running" /\ phase = "Execute" /\ phase' = "PostExec"
      /\ frames' = Front(frames) /\ exc'.pending = exc.pending
      /\ cpu.mode = "Handler" /\ PushedWords = 0
  BY DEF ExecBxReturn, Executes, At, Returning, ClearActive
<1>2. /\ cpu \in CpuState /\ frames \in Seq(Frame) /\ Clean
  BY <1>1, TypedExc DEF PreciseInv, NestInv, Prompt
<1>3. PICK f \in FrameAt(ReturnStack(cpu.lr), ReturnSP(cpu, cpu.lr)) :
        Returning(f, AfterBxReturn(f))
  BY DEF ExecBxReturn
<1> DEFINE d == ExceptionReturn(cpu, f, cpu.lr)
<1>4. frames # <<>> /\ f = frames[n] /\ f \in Frame /\ Alike(x, d) /\ ReturnConsistent(d)
  BY <1>1, <1>3, ReturnRestores DEF PreciseInv
<1>5. d \in CpuState
  BY <1>2, <1>4, ExceptionReturnType DEF CpuState
<1>6. cpu' = ITAdvance(d)
  BY <1>3, <1>4 DEF Returning, AfterBxReturn
<1> HIDE DEF d
<1>7. n \in Nat \ {0}
  BY <1>2, <1>4
<1>8. InPlace(x)
  <2>1. Ctx(frames, cpu, n) = x
    BY <1>7 DEF Ctx
  <2> QED
    BY <1>1, <1>7, <2>1 DEF PreciseInv, AllInPlace
<1>9. InPlace(cpu')
  BY <1>4, <1>5, <1>6, <1>8, AdvancePlace DEF InPlace, SamePlace, Alike
<1>10. ASSUME NEW k \in 1 .. Len(frames') + 1
       PROVE  InPlace(Ctx(frames', cpu', k))
  <2>1. Len(frames') = n - 1 /\ \A j \in 1 .. n - 1 : frames'[j] = frames[j]
    BY <1>1, <1>2, <1>4, FrontProperties
  <2>2. CASE k < n
    <3>1. Ctx(frames', cpu', k) = Ctx(frames, cpu, k)
      BY <1>7, <2>1, <2>2 DEF Ctx
    <3> QED
      BY <1>1, <1>7, <2>1, <2>2, <3>1 DEF PreciseInv, AllInPlace
  <2>3. CASE k = n
    BY <1>7, <1>9, <2>1, <2>3 DEF Ctx
  <2> QED
    BY <1>7, <2>1, <2>2, <2>3
<1>11. Clean' /\ OneFault'
  BY <1>1, <1>2 DEF Clean, OneFault, Faults
<1> QED
  BY <1>1, <1>10, <1>11 DEF AllInPlace, Prompt

LEMMA LoopPrecise ==
  ASSUME PreciseInv, ExecExit \/ ExecErrorExit \/ SysTickStep \/ ExecAgain
  PROVE  AllInPlace' /\ Prompt'
<1>1. CASE ExecExit \/ ExecErrorExit
  <2>1. /\ status = "running" /\ phase = "Execute" /\ frames' = frames /\ exc' = exc
        /\ phase' = "PreFetch" /\ cpu' = AdvancePcAndIt(cpu)
    BY <1>1 DEF ExecExit, ExecErrorExit, Leaves, Executes, At
  <2>2. InPlace(cpu) /\ cpu \in CpuState /\ Clean
    BY <2>1, RunningInPlace, TypedExc DEF PreciseInv, NestInv, Prompt
  <2>3. InPlace(cpu')
    BY <2>1, <2>2, AdvancePlace DEF InPlace, SamePlace
  <2> QED
    BY <2>1, <2>2, <2>3, StaysInPlace DEF Prompt, Clean
<1>2. CASE SysTickStep
  <2>1. /\ status = "running" /\ phase = "Tick" /\ frames' = frames /\ cpu' = cpu
        /\ phase' = "PreFetch"
        /\ exc'.pending \subseteq exc.pending \cup {SysTick}
    BY <1>2 DEF SysTickStep, At, SetPending
  <2>2. Clean'
    BY <2>1 DEF PreciseInv, Prompt, Clean, Faults, HardFault, BusFault, UsageFault, SysTick
  <2> QED
    BY <2>1, <2>2, RunningInPlace, StaysInPlace DEF Prompt
<1>3. CASE ExecAgain
  BY <1>3 DEF ExecAgain, PreciseInv, AllInPlace, Prompt, Clean, OneFault, Pending
<1> QED
  BY <1>1, <1>2, <1>3

LEMMA RestartedPrecise == Restarted => PreciseInv
<1> SUFFICES ASSUME Restarted PROVE PreciseInv
  OBVIOUS
<1>1. NestInv /\ Served
  BY RestartedTyped, RestartedChain, RestartedServed DEF NestInv
<1>2. InPlace(cpu)
  BY RestartedCpu DEF InPlace
<1>3. frames = <<>> /\ exc.pending = {} /\ phase = "PreFetch"
  BY DEF Restarted, InitExceptionStates
<1>4. AllInPlace
  BY <1>2, <1>3 DEF AllInPlace, Ctx
<1>5. Prompt
  BY <1>3 DEF Prompt, Clean
<1> QED
  BY <1>1, <1>4, <1>5 DEF PreciseInv

LEMMA InitPrecise == Init => PreciseInv
BY InitRestarted, RestartedPrecise

LEMMA HostResetPrecise == PreciseInv /\ HostReset => AllInPlace' /\ Prompt'
<1>1. Restarted' => PreciseInv'
  BY RestartedPrecise, PTL
<1> QED
  BY <1>1, HostResetRestarts DEF PreciseInv, NestInv

LEMMA NextPrecise ==
  ASSUME FaultsPreempt
  PROVE  PreciseInv /\ [Next]_vars => PreciseInv'
<1> SUFFICES ASSUME PreciseInv, [Next]_vars PROVE AllInPlace' /\ Prompt'
  BY NextNest, NextServed DEF FaultsPreempt, PreciseInv, NestInv
<1>1. ~ExecPopReturn
  BY DEF ExecPopReturn, Executes, FaultsPreempt, BxReturnsOnly
<1>2. CASE Execute
  BY <1>1, <1>2, QuietPrecise, RaisingPrecise, FixUpPrecise, BxReturnPrecise, LoopPrecise
     DEF Execute
<1>3. CASE Next /\ ~Execute
  BY <1>3, EntryPrecise, NoEntryPrecise, FetchPrecise, LoopPrecise, HostResetPrecise
     DEF Next, Step
<1>4. CASE UNCHANGED vars
  BY <1>4 DEF vars, PreciseInv, AllInPlace, Prompt, Clean, OneFault, Pending
<1> QED
  BY <1>2, <1>3, <1>4

\* FaultsPrecise: no fault that could preempt waits for a later instruction.
THEOREM FaultsPreciseCorrect ==
  ASSUME FaultsPreempt
  PROVE  Spec => []FaultsPrecise
<1>1. PreciseInv => FaultsPrecise
  <2> SUFFICES ASSUME PreciseInv, phase = "PreFetch", NEW e \in Candidates(exc, cpu.ipsr)
               PROVE  CanExecute("PreFetch", e)
    BY DEF FaultsPrecise
  <2>1. e \in exc.pending /\ exc.pending \subseteq RaisedByCode /\ Clean
    BY DEF PreciseInv, Served, Prompt, Candidates
  <2>2. e \in {11, 15}
    BY <2>1 DEF RaisedByCode, Clean, Faults, SVCall, SysTick
  <2> QED
    BY <2>2 DEF CanExecute
<1> QED
  BY <1>1, InitPrecise, NextPrecise, PTL DEF Spec

\* OnlyFetchedExecutes: with a clear T bit the UsageFault always comes before the
\* uninitialised raw_instr is decoded.
THEOREM OnlyFetchedCorrect ==
  ASSUME FaultsPreempt
  PROVE  Spec => []OnlyFetchedExecutes
<1>1. PreciseInv => OnlyFetchedExecutes
  BY DEF PreciseInv, Prompt, OnlyFetchedExecutes
<1> QED
  BY <1>1, InitPrecise, NextPrecise, PTL DEF Spec

\* ReturnsIntoContext: every stacked address is one of the code that was interrupted.
THEOREM ReturnAddressCorrect ==
  ASSUME FaultsPreempt
  PROVE  Spec => []ReturnsIntoContext
<1>1. PreciseInv => ReturnsIntoContext
  <2>1. \A k : Context(k) = Ctx(frames, cpu, k)
    BY DEF Context, Ctx, Depth
  <2> QED
    BY <2>1 DEF PreciseInv, AllInPlace, InPlace, ReturnsIntoContext, Contexts, Depth
<1> QED
  BY <1>1, InitPrecise, NextPrecise, PTL DEF Spec
=============================================================================
