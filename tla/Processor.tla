------------------------------ MODULE Processor ------------------------------
(***************************************************************************)
(* Processor::Step (processor/processor.h) inside the loop of              *)
(* Emulator::Exec (emulator.h): one step checks for exceptions before the  *)
(* fetch, after the fetch and after the execution of an instruction, and   *)
(* SysTick::Step follows it.  The three checks, the fetch, the execution   *)
(* and the timer are separate actions here, in the order of the code.      *)
(*                                                                         *)
(* The firmware that runs on the emulator is the environment: any          *)
(* instruction of the kinds in Instrs may come next.  It keeps to the      *)
(* procedure call standard: a handler leaves the stack as it found it and  *)
(* returns with the EXC_RETURN it was given in LR.                         *)
(*                                                                         *)
(* A program location is the context that owns the code (0 the thread, e   *)
(* the handler of e) and an offset; r0-r3, r12 and the flags are copied    *)
(* to and from a frame exactly as the location is, and are not separate    *)
(* fields.  Memory is a stack of frames: a read at the address of the last *)
(* one that was pushed sees it, a read anywhere else sees Junk.            *)
(***************************************************************************)
EXTENDS ExceptionStates, StackFrame, Sequences

CONSTANTS
  Vector,        \* [Exc -> {"thumb", "arm", "unmapped"}]: the vector table
  Instrs,        \* the kinds of instruction in the firmware
  BlockedFaults, \* whether code that a fault cannot preempt may raise it
  StkAlign,      \* CCR.STKALIGN while exceptions are active, 0 or 1
  LastOff,       \* bound: the code of a context has LastOff + 1 locations
  MaxIT,         \* bound: the longest IT block
  MaxPush,       \* bound: words that a context keeps on the main stack
  StackTop       \* where both stacks start

InstrKinds == {"plain", "branch", "it", "svc", "exit", "errexit", "bkpt",
  "fetchfault", "datafault", "divzero", "bxarm", "push", "pop", "control",
  "bxreturn", "popreturn", "fixup"}

ASSUME ProcessorAssumption ==
  /\ Vector \in [Exc -> {"thumb", "arm", "unmapped"}]
  /\ Instrs \subseteq InstrKinds
  /\ BlockedFaults \in BOOLEAN
  /\ StkAlign \in {0, 1}
  /\ {LastOff, MaxIT, MaxPush} \subseteq Nat
  /\ StackTop \in Address

VARIABLES
  exc,     \* the exception states
  cpu,     \* the core registers, special registers and SysCtrl
  frames,  \* the exception frames in memory, the innermost last
  phase,   \* where Step, or the loop around it, is
  local,   \* the locals of Step: pc_this_instr and raw_instr
  status   \* how Emulator::Exec stands

vars == <<exc, cpu, frames, phase, local, status>>

Loc == [ctx : {NoException} \cup Exc, off : 0 .. LastOff]

\* The low nibble of EXC_RETURN; LR of the thread is none of them.
ThreadLR      == 0
ReturnHandler == 1
ReturnMain    == 9
ReturnProcess == 13
LRValue       == {ThreadLR, ReturnHandler, ReturnMain, ReturnProcess}

CpuState == [mode : {"Thread", "Handler"}, ipsr : {NoException} \cup Exc,
  thumb : {0, 1}, it : 0 .. MaxIT, spsel : {0, 1}, pc : Loc, lr : LRValue,
  msp : Address, psp : Address]

\* What a frame in memory holds, and where; ctx is a ghost, the interrupted
\* context, which no action of the emulator reads back.
Frame == [stack : {"main", "process"}, sp : Address, align : {0, 1}, pc : Loc,
  it : 0 .. MaxIT, thumb : {0, 1}, ipsr : {NoException} \cup Exc,
  lr : LRValue, ctx : CpuState]

\* it in local is a ghost: the IT state in force at pc_this_instr.
LocalState == [pc : Loc, raw : {"none", "ok", "zero"}, it : 0 .. MaxIT]

Phases   == {"PreFetch", "Fetch", "PostFetch", "Execute", "PostExec", "Tick"}
Statuses == {"running", "exit", "limit", "panic"}

\* ResetLogic::TakeReset: thread mode, main stack, everything inactive.
ResetCpu == [mode |-> "Thread", ipsr |-> NoException, thumb |-> 1, it |-> 0,
  spsel |-> 0, pc |-> [ctx |-> NoException, off |-> 0], lr |-> ThreadLR,
  msp |-> StackTop, psp |-> StackTop]

Init ==
  /\ exc = InitExceptionStates
  /\ cpu = ResetCpu
  /\ frames = <<>>
  /\ phase = "PreFetch"
  /\ local = [pc |-> ResetCpu.pc, raw |-> "none", it |-> 0]
  /\ status = "running"

------------------------------------------------------------------------------
(* Exception entry and return, as functions of the processor state *)

\* LookUpSP compares the masked bit 3 of SysCtrl with 1 (reg_ops.h:64-67).
LookUpSP(c) ==
  IF 8 * c.spsel = 1 /\ c.mode = "Thread" THEN "process" ELSE "main"

\* Mutant: the IT state is not clamped at the end of the block.
ITAdvanceUnclamped(c) == [c EXCEPT !.it = @ - 1]

ITAdvance(c) == [c EXCEPT !.it = IF @ <= 1 THEN 0 ELSE @ - 1]

AdvanceInstr(c) == [c EXCEPT !.pc.off = IF @ >= LastOff THEN 0 ELSE @ + 1]

AdvancePcAndIt(c) == AdvanceInstr(ITAdvance(c))

\* The stack that PushStack uses: the process stack of a thread that has
\* selected it, the main stack otherwise.
EntryStack(c) ==
  IF c.spsel # 0 /\ c.mode = "Thread" THEN "process" ELSE "main"

EntrySP(c) == IF EntryStack(c) = "process" THEN c.psp ELSE c.msp

\* Mutant: LR does not tell a nested entry from one out of the thread.
ExcReturnValueFlat(c) == IF c.spsel = 1 THEN ReturnProcess ELSE ReturnMain

\* The EXC_RETURN that PushStack leaves in LR.
ExcReturnValue(c) == IF c.mode = "Handler" THEN ReturnHandler
                     ELSE IF c.spsel = 1 THEN ReturnProcess ELSE ReturnMain

\* The eight words that PushStack stores, ret being ReturnAddress().
PushedFrame(c, ret) ==
  [stack |-> EntryStack(c), sp |-> PushedSP(EntrySP(c), StkAlign),
   align |-> FramePtrAlign(EntrySP(c), StkAlign), pc |-> ret, it |-> c.it,
   thumb |-> c.thumb, ipsr |-> c.ipsr, lr |-> c.lr,
   ctx |-> [c EXCEPT !.pc = ret]]

\* The registers that PushStack changes.
PushStack(c) ==
  [c EXCEPT !.lr = ExcReturnValue(c),
     !.psp = IF EntryStack(c) = "process" THEN PushedSP(@, StkAlign) ELSE @,
     !.msp = IF EntryStack(c) = "main" THEN PushedSP(@, StkAlign) ELSE @]

ExceptionTaken(c, e) ==
  [c EXCEPT !.pc = [ctx |-> e, off |-> 0], !.mode = "Handler", !.ipsr = e,
            !.thumb = IF Vector[e] = "thumb" THEN 1 ELSE 0,
            !.it = 0, !.spsel = 0]

ReturnStack(r) == IF r = ReturnProcess THEN "process" ELSE "main"

ReturnSP(c, r) == IF r = ReturnProcess THEN c.psp ELSE c.msp

\* PopStack, from the frame f that memory holds at the chosen pointer.
PopStack(c, f, r) ==
  [c EXCEPT !.pc = f.pc, !.lr = f.lr, !.ipsr = f.ipsr, !.thumb = f.thumb,
     !.it = f.it,
     !.psp = IF r = ReturnProcess THEN PoppedSP(@, f.align, StkAlign) ELSE @,
     !.msp = IF r # ReturnProcess THEN PoppedSP(@, f.align, StkAlign) ELSE @]

ExceptionReturn(c, f, r) ==
  PopStack([c EXCEPT !.mode  = IF r = ReturnHandler THEN "Handler" ELSE "Thread",
                     !.spsel = IF r = ReturnProcess THEN 1 ELSE 0], f, r)

\* The check at the end of ExceptionReturn.
ReturnConsistent(c) == c.mode = "Handler" <=> c.ipsr # NoException

\* What a read of eight words finds where no frame was pushed.
Junk == [stack : {"main"}, sp : {0}, align : {0, 1}, pc : Loc,
  it : 0 .. MaxIT, thumb : {0, 1}, ipsr : {NoException} \cup Exc,
  lr : LRValue, ctx : {ResetCpu}]

FrameAt(stack, sp) ==
  LET top == frames[Len(frames)]
  IN  IF frames # <<>> /\ top.stack = stack /\ top.sp = sp
      THEN {top} ELSE Junk

Front(s) == SubSeq(s, 1, Len(s) - 1)

------------------------------------------------------------------------------
(* The three checks for exceptions *)

At(p) == status = "running" /\ phase = p

\* Mutant: the error of an entry whose vector cannot be read is dropped.
ExceptionEntryGoesOn(e, ret) ==
  LET pushed  == PushStack(cpu)
      cleared == ClearPending(exc, e)
  IN  /\ frames' = Append(frames, PushedFrame(cpu, ret))
      /\ IF Vector[e] = "unmapped"
         THEN cpu' = pushed /\ exc' = cleared
         ELSE /\ cpu' = ExceptionTaken(pushed, e)
              /\ exc' = SetActive(cleared, e)
      /\ UNCHANGED status

\* ExceptionEntry: PushStack, then ExceptionTaken.  When the vector cannot be
\* read the step fails after the frame has been pushed.
ExceptionEntry(e, ret) ==
  LET pushed  == PushStack(cpu)
      cleared == ClearPending(exc, e)
  IN  /\ frames' = Append(frames, PushedFrame(cpu, ret))
      /\ IF Vector[e] = "unmapped"
         THEN cpu' = pushed /\ exc' = cleared /\ status' = "panic"
         ELSE /\ cpu' = ExceptionTaken(pushed, e)
              /\ exc' = SetActive(cleared, e)
              /\ UNCHANGED status

TakenAt(instant) == {e \in Exc : Takes(exc, cpu.ipsr, instant, e)}

\* Mutant: the pc is not read again.
PreFetchEntryStalePc ==
  /\ At("PreFetch")
  /\ \E e \in TakenAt("PreFetch") : ExceptionEntry(e, cpu.pc)
  /\ local' = [pc |-> cpu.pc, raw |-> "none", it |-> cpu.it]
  /\ phase' = "Fetch"

\* Step reads the pc again when the check has moved it.
PreFetchEntry ==
  /\ At("PreFetch")
  /\ \E e \in TakenAt("PreFetch") : ExceptionEntry(e, cpu.pc)
  /\ local' = [pc |-> cpu'.pc, raw |-> "none", it |-> cpu'.it]
  /\ phase' = "Fetch"

PreFetchNone ==
  /\ At("PreFetch")
  /\ TakenAt("PreFetch") = {}
  /\ local' = [pc |-> cpu.pc, raw |-> "none", it |-> cpu.it]
  /\ phase' = "Fetch"
  /\ UNCHANGED <<exc, cpu, frames, status>>

\* A fault at the fetch makes the cycle a NOP.
PostFetchEntry ==
  /\ At("PostFetch")
  /\ \E e \in TakenAt("PostFetch") : ExceptionEntry(e, local.pc)
  /\ phase' = "Tick"
  /\ UNCHANGED local

PostFetchNone ==
  /\ At("PostFetch")
  /\ TakenAt("PostFetch") = {}
  /\ phase' = "Execute"
  /\ UNCHANGED <<exc, cpu, frames, local, status>>

PostExecEntry ==
  /\ At("PostExec")
  /\ \E e \in TakenAt("PostExec") : ExceptionEntry(e, local.pc)
  /\ phase' = "Tick"
  /\ UNCHANGED local

PostExecNone ==
  /\ At("PostExec")
  /\ TakenAt("PostExec") = {}
  /\ phase' = "Tick"
  /\ UNCHANGED <<exc, cpu, frames, local, status>>

------------------------------------------------------------------------------
(* The fetch *)

MayRaise(e) == BlockedFaults \/ Prio[e] < ExecutingPriority(cpu.ipsr)

Fetched(raw) ==
  /\ local' = [local EXCEPT !.raw = raw]
  /\ phase' = "PostFetch"
  /\ UNCHANGED <<cpu, frames, status>>

FetchOk ==
  /\ At("Fetch")
  /\ cpu.thumb = 1
  /\ Fetched("ok")
  /\ UNCHANGED exc

\* ReadOrRaise with kRaiseInstructionBusError returns a zero opcode.
FetchFault ==
  /\ At("Fetch")
  /\ cpu.thumb = 1
  /\ "fetchfault" \in Instrs /\ MayRaise(BusFault)
  /\ Fetched("zero")
  /\ exc' = SetPending(exc, BusFault)

\* IsThumbModeOrRaise: nothing is fetched, raw_instr stays uninitialised.
FetchInvalidState ==
  /\ At("Fetch")
  /\ cpu.thumb = 0
  /\ Fetched("none")
  /\ exc' = SetPending(exc, UsageFault)

------------------------------------------------------------------------------
(* The execution of an instruction *)

\* A halfword that could not be fetched reads as zero: MOVS R0, R0, or a wide
\* instruction that at most accesses data.  An uninitialised one is any.
Executes(kind) ==
  /\ At("Execute")
  /\ kind \in Instrs
  /\ local.raw = "zero" => kind \in {"plain", "datafault"}

Retire(c) == cpu' = c /\ phase' = "PostExec" /\ UNCHANGED <<local, status>>

\* The main stack pointer as the running context found it.
BaseSP ==
  LET top == frames[Len(frames)]
  IN  IF frames = <<>> THEN StackTop
      ELSE IF top.stack = "main" THEN top.sp ELSE top.ctx.msp

PushedWords == Wrap(BaseSP - cpu.msp) \div 4

\* Also every instruction whose condition fails.
ExecPlain ==
  /\ Executes("plain")
  /\ Retire(AdvancePcAndIt(cpu))
  /\ UNCHANGED <<exc, frames>>

ExecBranch ==
  /\ Executes("branch")
  /\ cpu.it <= 1
  /\ \E off \in 0 .. LastOff : Retire(ITAdvance([cpu EXCEPT !.pc.off = off]))
  /\ UNCHANGED <<exc, frames>>

ExecIt ==
  /\ Executes("it")
  /\ cpu.it = 0
  /\ \E n \in 1 .. MaxIT : Retire(AdvanceInstr([cpu EXCEPT !.it = n]))
  /\ UNCHANGED <<exc, frames>>

ExecSvc ==
  /\ Executes("svc")
  /\ exc' = SetPending(exc, SVCall)
  /\ Retire(AdvancePcAndIt(cpu))
  /\ UNCHANGED frames

ExecBkpt ==
  /\ Executes("bkpt")
  /\ MayRaise(HardFault)
  /\ exc' = SetPending(exc, HardFault)
  /\ Retire(AdvancePcAndIt(cpu))
  /\ UNCHANGED frames

\* A load or store that the bus refuses: the instruction completes with a
\* zero read, or with nothing written.
ExecDataFault ==
  /\ Executes("datafault")
  /\ MayRaise(BusFault)
  /\ exc' = SetPending(exc, BusFault)
  /\ Retire(AdvancePcAndIt(cpu))
  /\ UNCHANGED frames

ExecDivByZero ==
  /\ Executes("divzero")
  /\ MayRaise(UsageFault)
  /\ exc' = SetPending(exc, UsageFault)
  /\ Retire(AdvancePcAndIt(cpu))
  /\ UNCHANGED frames

\* BXWritePC, with bit 0 of the target clear.
ExecBxToArm ==
  /\ Executes("bxarm")
  /\ MayRaise(UsageFault) /\ cpu.it <= 1
  /\ \E off \in 0 .. LastOff :
       Retire(ITAdvance([cpu EXCEPT !.thumb = 0, !.pc.off = off]))
  /\ UNCHANGED <<exc, frames>>

\* R13 is read and written through LookUpSP.
MoveSP(c, delta) ==
  IF LookUpSP(c) = "process"
  THEN [c EXCEPT !.psp = Wrap(@ + delta)]
  ELSE [c EXCEPT !.msp = Wrap(@ + delta)]

ExecPush ==
  /\ Executes("push")
  /\ PushedWords < MaxPush
  /\ Retire(AdvancePcAndIt(MoveSP(cpu, -4)))
  /\ UNCHANGED <<exc, frames>>

ExecPop ==
  /\ Executes("pop")
  /\ PushedWords > 0
  /\ Retire(AdvancePcAndIt(MoveSP(cpu, 4)))
  /\ UNCHANGED <<exc, frames>>

\* MSR CONTROL by privileged code; SPSEL changes in thread mode only.
ExecMsrControl ==
  /\ Executes("control")
  /\ \E bit \in {0, 1} :
       Retire(AdvancePcAndIt(
         IF cpu.mode = "Thread" THEN [cpu EXCEPT !.spsel = bit] ELSE cpu))
  /\ UNCHANGED <<exc, frames>>

\* A fault handler edits the frame that interrupted it, as those of the test
\* firmware do: it steps over the instruction and sets the T bit.
ExecFixUp ==
  /\ Executes("fixup")
  /\ cpu.mode = "Handler" /\ frames # <<>>
  /\ LET top  == frames[Len(frames)]
         next == AdvanceInstr(top).pc
     IN  frames' = [frames EXCEPT ![Len(frames)] =
           [top EXCEPT !.pc = next, !.thumb = 1,
                       !.ctx.pc = next, !.ctx.thumb = 1]]
  /\ Retire(AdvancePcAndIt(cpu))
  /\ UNCHANGED exc

\* What the two return instructions share; fin is the state after the pop of
\* f, before the instruction's own last writes.
Returning(f, fin) ==
  /\ exc' = ClearActive(exc, cpu.ipsr)
  /\ frames' = Front(frames)
  /\ phase' = "PostExec"
  /\ IF ReturnConsistent(ExceptionReturn(cpu, f, cpu.lr))
     THEN cpu' = fin /\ UNCHANGED status
     ELSE cpu' = ExceptionReturn(cpu, f, cpu.lr) /\ status' = "panic"
  /\ UNCHANGED local

\* PostExecBxWritePc: BXWritePC returns from the exception, and the IT state
\* is advanced after that.
AfterBxReturn(f) == ITAdvance(ExceptionReturn(cpu, f, cpu.lr))

ExecBxReturn ==
  /\ Executes("bxreturn")
  /\ cpu.mode = "Handler" /\ cpu.it <= 1 /\ PushedWords = 0
  /\ \E f \in FrameAt(ReturnStack(cpu.lr), ReturnSP(cpu, cpu.lr)) :
       Returning(f, AfterBxReturn(f))

\* POP {.., pc} with EXC_RETURN on the stack (variadic_load_instr.h): the
\* write-back of SP follows the exception return and uses the SP read first.
AfterPopReturn(f) ==
  LET c == AfterBxReturn(f)
      n == Wrap(cpu.msp + 4 * PushedWords)
  IN  IF LookUpSP(c) = "process"
      THEN [c EXCEPT !.psp = n] ELSE [c EXCEPT !.msp = n]

ExecPopReturn ==
  /\ Executes("popreturn")
  /\ cpu.mode = "Handler" /\ cpu.it <= 1 /\ PushedWords > 0
  /\ \E f \in FrameAt(ReturnStack(cpu.lr), ReturnSP(cpu, cpu.lr)) :
       Returning(f, AfterPopReturn(f))

\* SVC 1, or a semihosting breakpoint that asks to exit: Step returns before
\* the last check and Exec before the timer.
Leaves(how) ==
  /\ cpu' = AdvancePcAndIt(cpu)
  /\ phase' = "PreFetch"
  /\ status' = how
  /\ UNCHANGED <<exc, frames, local>>

ExecExit == Executes("exit") /\ Leaves("exit")

ExecErrorExit == Executes("errexit") /\ Leaves("panic")

Execute ==
  \/ ExecPlain \/ ExecBranch \/ ExecIt \/ ExecSvc \/ ExecBkpt
  \/ ExecDataFault \/ ExecDivByZero \/ ExecBxToArm \/ ExecPush \/ ExecPop
  \/ ExecMsrControl \/ ExecFixUp \/ ExecBxReturn \/ ExecPopReturn \/ ExecExit
  \/ ExecErrorExit

------------------------------------------------------------------------------
(* The loop of Emulator::Exec *)

\* SysTick::Step may or may not reach zero; then the instruction limit may or
\* may not end the call.
SysTickStep ==
  /\ At("Tick")
  /\ exc' \in {exc, SetPending(exc, SysTick)}
  /\ status' \in {"running", "limit"}
  /\ phase' = "PreFetch"
  /\ UNCHANGED <<cpu, frames, local>>

\* The host calls Exec again: cpu_states_ has kept everything.
ExecAgain ==
  /\ status \in {"exit", "limit"}
  /\ status' = "running"
  /\ UNCHANGED <<exc, cpu, frames, phase, local>>

\* Mutant: active flags survive a reset.
HostResetKeepsActive ==
  /\ status # "running"
  /\ exc' = [InitExceptionStates EXCEPT !.active = exc.active]
  /\ \E off \in 0 .. LastOff :
       cpu' = [ResetCpu EXCEPT !.psp = cpu.psp, !.pc = [@ EXCEPT !.off = off]]
  /\ frames' = <<>> /\ phase' = "PreFetch" /\ status' = "running"
  /\ UNCHANGED local

\* Machine::Reset or Load, and Exec again: TakeReset leaves SP_process, and Load
\* may then set the pc to the entry point of a program.
HostReset ==
  /\ status # "running"
  /\ exc' = InitExceptionStates
  /\ \E off \in 0 .. LastOff :
       cpu' = [ResetCpu EXCEPT !.psp = cpu.psp, !.pc = [@ EXCEPT !.off = off]]
  /\ frames' = <<>> /\ phase' = "PreFetch" /\ status' = "running"
  /\ UNCHANGED local

Step ==
  \/ PreFetchEntry \/ PreFetchNone
  \/ FetchOk \/ FetchFault \/ FetchInvalidState
  \/ PostFetchEntry \/ PostFetchNone
  \/ Execute
  \/ PostExecEntry \/ PostExecNone

Next == Step \/ SysTickStep \/ ExecAgain \/ HostReset

Spec == Init /\ [][Next]_vars

\* The emulator runs by itself: a step that can be taken is taken.
FairSpec == Spec /\ WF_vars(Next)

------------------------------------------------------------------------------
(* Properties *)

\* The contexts that are not finished, the thread first, the running one last.
Depth == Len(frames)
Context(i) == IF i <= Depth THEN frames[i].ctx ELSE cpu
Contexts == {Context(i) : i \in 1 .. Depth + 1}

\* Every variable has the values that the code can give it.
TypeOK ==
  /\ exc \in [pending : SUBSET Exc, count : 0 .. 48, active : SUBSET Exc]
  /\ cpu \in CpuState
  /\ frames \in Seq(Frame)
  /\ phase \in Phases
  /\ local \in LocalState
  /\ status \in Statuses

\* pending_exceptions, which CheckExceptions trusts for its early return, is
\* the number of pending flags that are set.
PendingCountExact == exc.count = Cardinality(exc.pending)

\* The active flags, which live in the emulator, and the exception frames,
\* which live in guest memory, tell the same story: the active exceptions are
\* the IPSRs of the unfinished contexts, the outermost context is the thread,
\* and the processor mode of each agrees with its IPSR.
ActiveIsChain ==
  status # "panic" =>
    /\ exc.active = {c.ipsr : c \in Contexts} \ {NoException}
    /\ Context(1).ipsr = NoException
    /\ \A c \in Contexts : c.mode = "Handler" <=> c.ipsr # NoException

\* Preemption is strict: every unfinished context is more urgent than those
\* it came upon, so an exception never interrupts its own handler.
PrioritiesNest ==
  status # "panic" =>
    \A i, j \in 1 .. Depth + 1 :
      i < j => ExecutingPriority(Context(j).ipsr) < ExecutingPriority(Context(i).ipsr)

\* However badly handlers return, exceptions nest no deeper than there are
\* active flags.  An entry that pushed its frame and then failed, or a return
\* that cleared the flag of a corrupted IPSR, must not leave frames to pile up.
NestingBounded == status # "panic" => Depth <= Cardinality(exc.active)

\* The address that an exception stacks is in the code of the context that it
\* interrupts; the running pc is in the code of the running context.
ReturnsIntoContext ==
  status # "panic" => \A c \in Contexts : c.pc.ctx = c.ipsr

\* An exception return restores what the exception interrupted, whatever ran
\* in between: pc, LR, mode, IPSR, T bit, stack selection and both stack
\* pointers.  (The IT state is the subject of RestoresIT.)
RestoresContext ==
  [][Len(frames') < Len(frames) /\ status = "running" =>
       [cpu' EXCEPT !.it = 0] = [frames[Depth].ctx EXCEPT !.it = 0]]_vars

\* The IT state, too, comes back as the frame held it.
RestoresIT ==
  [][Len(frames') < Len(frames) /\ status = "running" =>
       cpu'.it = frames[Depth].ctx.it]_vars

\* R13 is the stack pointer that CONTROL.SPSEL selects.
R13Selected == LookUpSP(cpu) = EntryStack(cpu)

\* Of several exceptions of one priority that could be taken, the one with
\* the lowest number is.
LowestNumberFirst ==
  [][\A e \in exc'.active \ exc.active, f \in Candidates(exc, cpu.ipsr) :
       Prio[e] = Prio[f] => e <= f]_vars

\* The IT state in a frame belongs to the return address beside it.
StackedITConsistent ==
  [][Len(frames') > Len(frames) =>
       frames'[Len(frames')].it =
         IF phase = "PreFetch" THEN cpu.it ELSE local.it]_vars

\* While the emulator runs, a pending flag is only ever cleared by the activation
\* of its exception.
NoLostPending ==
  [][status = "running" => \A e \in exc.pending \ exc'.pending :
       e \in exc'.active \ exc.active \/ status' = "panic"]_vars

\* Once the checks before the fetch are over, no asynchronous exception that
\* could preempt is left waiting: it is never later than one instruction.
AsyncServed ==
  status = "running" /\ phase = "Fetch" =>
    \A e \in Candidates(exc, cpu.ipsr) : ~CanExecute("PreFetch", e)

\* A fault that can preempt is taken in the step that raises it; it never
\* waits for a later instruction, whose address it would then stack.
FaultsPrecise ==
  phase = "PreFetch" =>
    \A e \in Candidates(exc, cpu.ipsr) : CanExecute("PreFetch", e)

\* Nothing is executed that was not fetched: when the T bit is clear the
\* UsageFault comes before the uninitialised raw_instr is decoded.
OnlyFetchedExecutes == phase = "Execute" => local.raw # "none"

\* Firmware that keeps to the procedure call standard and has a handler for
\* every exception never makes the emulator give up.
NoPanic == status # "panic"
=============================================================================
