------------------------------ MODULE FaultStatus ------------------------------
(***************************************************************************)
(* What becomes of an access that the bus refuses: the processor of        *)
(* Processor::Step with its three checks, reduced to what faults depend    *)
(* on, over a memory whose words may be missing or read-only, also under   *)
(* an exception frame.  ExceptionEntry goes on when words of its frame are *)
(* refused, so a fault may be raised while the processor enters the        *)
(* handler of that very fault; ExceptionReturn takes zeros for words that  *)
(* it cannot read.                                                         *)
(*                                                                         *)
(* A frame is two words here: the registers, of which LR is what matters   *)
(* because the handler returns by it, and the xPSR.  The pc is left out:   *)
(* any instruction may come next.  Firmware keeps its stores away from     *)
(* frames and returns with the stack pointer it was given.  A thread may   *)
(* move its stack anywhere.                                                *)
(***************************************************************************)
EXTENDS Bus, Sequences

CONSTANTS
  Accesses,   \* bound: how many words one instruction accesses
  Registers,  \* the fault status registers that firmware writes
  Values      \* bound: the flags that are ones in the words it stores there

ASSUME FaultStatusAssumption ==
  /\ Accesses \subseteq Nat
  /\ Registers \subseteq {"CFSR", "BFAR"}
  /\ Values \subseteq SUBSET Flags

VARIABLES
  fault,    \* the exception states, CFSR and BFAR
  cpu,      \* mode, IPSR, T bit, stack pointer and LR
  mem,      \* the words of memory
  frames,   \* ghost: the contexts that were interrupted, the innermost last
  phase,    \* where Step is
  history   \* ghost: what was refused

vars == <<fault, cpu, mem, frames, phase, history>>

\* LR of the thread is any value that is not an EXC_RETURN.
ThreadLR      == 2
ReturnHandler == 1
ReturnMain    == 9

\* XPSR as far as it matters: the exception number and the T bit.
Xpsr(c) == c.ipsr + 64 * c.thumb

FrameWords == 2

Instants == {"PreFetch", "PostFetch", "PostExec"}

Init ==
  /\ fault = [exc |-> InitExceptionStates, cfsr |-> {}, bfar |-> 0]
  /\ cpu \in [mode : {"Thread"}, ipsr : {NoException}, thumb : {1}, sp : Adr,
              lr : {ThreadLR}]
  /\ mem = [a \in Adr |-> 0]
  /\ frames = <<>>
  /\ phase = "PreFetch"
  /\ history = [unserved |-> {}, at |-> 0, ones |-> {}]

------------------------------------------------------------------------------
(* Exception entry and return *)

FramePtr == (cpu.sp + Words - FrameWords) % Words

Read(a) == IF Readable(a) THEN mem[a] ELSE 0

\* The ghosts.  A fault is unserved from its raising to its entry, and at is
\* the address that BFAR has to hold.
Remembers(raised, at, served) ==
  history' = [unserved |-> (history.unserved \ served) \cup raised,
              at |-> at, ones |-> {}]

\* The ghost of a frame knows whether BusFault has been pending since.
Witnessed(fs) ==
  [i \in 1 .. Len(fs) |->
     [fs[i] EXCEPT !.witness = @ \/ BusFault \in fault'.exc.pending]]

\* Mutant: the pending flag is cleared at the end of the entry.
EntryFaultsLate(e) ==
  LET x == WriteOrRaise(fault, "UNSTKERR", FramePtr, FrameWords)
  IN  WithExc(x, SetActive(ClearPending(x.exc, e), e))

\* ClearExceptionPending, then PushStack, then SetExceptionActive.
EntryFaults(e) ==
  LET x == WriteOrRaise(WithExc(fault, ClearPending(fault.exc, e)),
                        "UNSTKERR", FramePtr, FrameWords)
  IN  WithExc(x, SetActive(x.exc, e))

ExceptionEntry(e) ==
  LET S == RefusedWrites(FramePtr, FrameWords)
      lr2 == IF cpu.mode = "Handler" THEN ReturnHandler ELSE ReturnMain
      word2 == WordAt(FramePtr, 1)
  IN  /\ fault' = EntryFaults(e)
      /\ mem' = [a \in Adr |-> IF ~Writable(a) THEN mem[a]
                               ELSE IF a = word2 THEN Xpsr(cpu)
                               ELSE IF a = FramePtr THEN cpu.lr ELSE mem[a]]
      /\ cpu' = [mode |-> "Handler", ipsr |-> e, thumb |-> 1, sp |-> FramePtr,
                 lr |-> lr2]
      /\ frames' = Witnessed(Append(frames, [cpu |-> cpu, witness |-> FALSE]))
      /\ Remembers(IF S = {} THEN {} ELSE {BusFault},
                   IF S = {} THEN history.at ELSE LastOf(FramePtr, S), {e})

\* PopStack: the words that cannot be read are taken for zero.
Popped ==
  LET psr == Read(WordAt(cpu.sp, 1))
  IN  [mode |-> IF cpu.lr = ReturnHandler THEN "Handler" ELSE "Thread",
       ipsr |-> psr % 64, thumb |-> psr \div 64, lr |-> Read(cpu.sp),
       sp |-> (cpu.sp + FrameWords) % Words]

------------------------------------------------------------------------------
(* The checks for exceptions *)

TakenAt(instant) == {e \in Exc : Takes(fault.exc, cpu.ipsr, instant, e)}

CheckEntry ==
  /\ phase \in Instants
  /\ \E e \in TakenAt(phase) : ExceptionEntry(e)
  /\ phase' = IF phase = "PreFetch" THEN "Fetch" ELSE "PreFetch"

CheckNone ==
  /\ phase \in Instants
  /\ TakenAt(phase) = {}
  /\ phase' = CASE phase = "PreFetch"  -> "Fetch"
                [] phase = "PostFetch" -> "Execute"
                [] phase = "PostExec"  -> "PreFetch"
  /\ UNCHANGED <<fault, cpu, mem, frames, history>>

------------------------------------------------------------------------------
(* The fetch and the execution *)

FetchOk ==
  /\ phase = "Fetch" /\ cpu.thumb = 1
  /\ phase' = "PostFetch"
  /\ UNCHANGED <<fault, cpu, mem, frames, history>>

\* One of the halfwords of an instruction is refused.
FetchRefused ==
  /\ phase = "Fetch" /\ cpu.thumb = 1
  /\ \E a \in Adr :
       /\ ~Readable(a)
       /\ fault' = ReadOrRaise(fault, "IBUSERR", a, 1)
       /\ Remembers({BusFault}, a, {})
  /\ frames' = Witnessed(frames)
  /\ phase' = "PostFetch"
  /\ UNCHANGED <<cpu, mem>>

FetchInvalidState ==
  /\ phase = "Fetch" /\ cpu.thumb = 0
  /\ fault' = RaiseUsage(fault, "INVSTATE")
  /\ Remembers({UsageFault}, history.at, {})
  /\ phase' = "PostFetch"
  /\ UNCHANGED <<cpu, mem, frames>>

\* An instruction that leaves the stack alone: its accesses, faults and
\* supervisor calls are in x.
Executes(x) ==
  /\ phase = "Execute"
  /\ fault' = x
  /\ frames' = Witnessed(frames)
  /\ phase' = "PostExec"
  /\ UNCHANGED <<cpu, mem>>

\* LDR, LDM and the like.
ExecLoad ==
  \E a \in Adr, n \in Accesses :
    LET S == RefusedReads(a, n)
    IN  /\ Executes(ReadOrRaise(fault, "PRECISERR", a, n))
        /\ Remembers(IF S = {} THEN {} ELSE {BusFault},
                     IF S = {} THEN history.at ELSE LastOf(a, S), {})

\* STR, STM and the like, outside the frames.
ExecStore ==
  \E a \in Adr, n \in Accesses :
    LET S == RefusedWrites(a, n)
    IN  /\ Executes(WriteOrRaise(fault, "PRECISERR", a, n))
        /\ Remembers(IF S = {} THEN {} ELSE {BusFault},
                     IF S = {} THEN history.at ELSE LastOf(a, S), {})

\* UDIV or SDIV by zero with DIV_0_TRP set.
ExecDivByZero ==
  /\ Executes(RaiseUsage(fault, "DIVBYZERO"))
  /\ Remembers({UsageFault}, history.at, {})

ExecSvc ==
  /\ Executes(WithExc(fault, SetPending(fault.exc, SVCall)))
  /\ Remembers({}, history.at, {})

ExecBkpt ==
  /\ Executes(WithExc(fault, SetPending(fault.exc, HardFault)))
  /\ Remembers({}, history.at, {})

\* A store to CFSR or to a part of it, or a store of a word to BFAR.
ExecStoreRegister ==
  \E r \in Registers, part \in {"BFSR", "UFSR", "CFSR"}, value \in Values :
    LET ones == value \cap Covers(part)
    IN  /\ r = "BFAR" => part = "CFSR"
        /\ Executes(IF r = "CFSR" THEN WriteCfsr(fault, part, ones)
                                  ELSE WriteBfar(fault, ones))
        /\ history' = [unserved |-> history.unserved, at |-> history.at,
                       ones |-> ones]

\* BX to an address without the Thumb bit.
ExecBxToArm ==
  /\ phase = "Execute"
  /\ cpu' = [cpu EXCEPT !.thumb = 0]
  /\ phase' = "PostExec"
  /\ UNCHANGED <<fault, mem, frames, history>>

\* MSR MSP, or arithmetic on SP, while nothing is on the stack.
ExecMoveSP ==
  /\ phase = "Execute" /\ frames = <<>>
  /\ \E a \in Adr : cpu' = [cpu EXCEPT !.sp = a]
  /\ phase' = "PostExec"
  /\ UNCHANGED <<fault, mem, frames, history>>

\* BX LR, with the consistency check at its end; a failed one ends the run.
ExecReturn ==
  /\ phase = "Execute" /\ cpu.mode = "Handler"
  /\ cpu.lr \in {ReturnHandler, ReturnMain}
  /\ fault' = ReadOrRaise(WithExc(fault, ClearActive(fault.exc, cpu.ipsr)),
                          "STKERR", cpu.sp, FrameWords)
  /\ cpu' = Popped
  /\ phase' = IF Popped.mode = "Handler" <=> Popped.ipsr # NoException
              THEN "PostExec" ELSE "panic"
  /\ frames' = Witnessed(SubSeq(frames, 1, Len(frames) - 1))
  /\ Remembers(IF RefusedReads(cpu.sp, FrameWords) = {} THEN {} ELSE {BusFault},
               history.at, {})
  /\ UNCHANGED mem

Next ==
  \/ CheckEntry \/ CheckNone
  \/ FetchOk \/ FetchRefused \/ FetchInvalidState
  \/ ExecLoad \/ ExecStore \/ ExecDivByZero \/ ExecSvc \/ ExecBkpt
  \/ ExecStoreRegister \/ ExecBxToArm \/ ExecMoveSP \/ ExecReturn

Spec == Init /\ [][Next]_vars

------------------------------------------------------------------------------
(* Properties *)

Content == 0 .. 127

Context == [mode : {"Thread", "Handler"}, ipsr : {NoException} \cup Exc,
  thumb : {0, 1}, sp : Adr, lr : {0, ThreadLR, ReturnHandler, ReturnMain}]

\* Every variable has the values that the code can give it.
FaultTypeOK ==
  /\ fault \in [exc : [pending : SUBSET Exc, count : 0 .. 48, active : SUBSET Exc],
                cfsr : SUBSET Flags, bfar : Adr]
  /\ cpu \in Context
  /\ mem \in [Adr -> Content]
  /\ frames \in Seq([cpu : Context, witness : BOOLEAN])
  /\ phase \in Instants \cup {"Fetch", "Execute", "panic"}
  /\ history \in [unserved : SUBSET {BusFault, UsageFault}, at : Adr,
                  ones : SUBSET Flags]

\* A fault is pending exactly when something was refused since its handler
\* was last entered: also what the entry of that handler itself was refused.
FaultsOwed ==
  fault.exc.pending \cap {BusFault, UsageFault} = history.unserved

\* While BFARVALID is set, BFAR is the address of the last access that was
\* refused, of those that report one.
BfarNamesFault == "BFARVALID" \in fault.cfsr => fault.bfar = history.at

\* A fault flag disappears only by a store that has a one in its place; an
\* acknowledgement of one kind of fault does not lose another.
ClearedOnlyByName ==
  [][\A f \in fault.cfsr \ fault'.cfsr : f \in history'.ones]_vars

\* A context that does not come back as it was interrupted does not come back
\* unnoticed: BusFault has been pending since it was interrupted.
LossWitnessed ==
  [][Len(frames') < Len(frames) =>
       \/ cpu' = frames[Len(frames)].cpu
       \/ frames[Len(frames)].witness
       \/ BusFault \in fault'.exc.pending]_vars
=============================================================================
