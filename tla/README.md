# libmicroemu in TLA+

libmicroemu is an emulator of an ARMv7-M microcontroller: a C++ template library that fetches,
decodes and executes Thumb instructions, takes and returns from exceptions, and emulates the system
timer. This directory holds TLA+ models of its control logic, the TLC configurations that check
them, and proofs for TLAPS. The source is read as it is, so the models say what the code does; where
a comment of the code says something else, a run shows the difference (see *Findings*).

Paths below are relative to the repository; `internal/` stands for `src/libmicroemu/internal/`.

Check a model with `tlc -config MCProcessor_testing.cfg MCProcessor`, a proof with
`tlapm ProcessorProofs.tla`. PROJECT.json lists the runs with their properties, the definitions with
the lines they model, the theorems, the hazards, and for every property a mutant of the model that
breaks it.

## The system

### Components

| component | state | operations |
|---|---|---|
| exception states (`include/libmicroemu/exception_states.h`, `internal/logic/exceptions_ops.h`) | pending and active flag and priority of each exception, the counter `pending_exceptions` | `SetExceptionPending`, `ClearExceptionPending`, `SetExceptionActive`, `ClearExceptionActive`, `CheckExceptions` at three instants |
| exception entry and return (`exceptions_ops.h`) | core registers, special registers, two stacks in guest memory | `ExceptionEntry` (`PushStack`, `ReturnAddress`, `ExceptionTaken`), `ExceptionReturn` (`PopStack`, consistency checks) |
| processor (`internal/processor/processor.h`) | locals of one step: `pc_this_instr`, `raw_instr` | `Step`: check, fetch, check, decode, execute, check |
| emulator (`internal/emulator.h`) | locals of one call: instruction counter, limit | `Reset`, `SetEntryPoint`, `Exec`: the loop of `Step` and `SysTick::Step` |
| machine (`src/libmicroemu/machine.cpp`) | `cpu_states_`, memory segments | `Load`, `Reset`, `Exec`, `EvaluateState`: what the host calls |
| reset (`internal/logic/reset_logic.h`) | none of its own | `TakeReset` |
| SysTick (`internal/peripherals/sys_tick.h`) | `SYST_CSR`, `SYST_RVR`, `SYST_CVR` | register accesses, `Step` |
| system control block (`internal/peripherals/sys_ctrl_block.h`) | `CCR`, `CFSR`, `BFAR` | register accesses |
| bus (`internal/bus/`) | none; it forwards to flash, RAM and memory-mapped registers | `Read`, `Write`, `ReadOrRaise`, `WriteOrRaise` |
| register access (`reg_ops.h`, `spec_reg_ops.h`, `predicates.h`) | registers in `cpu_states.h` | R13 banking, packing of `XPSR` and `CONTROL` |
| pc and IT (`pc_ops.h`, `if_then_ops.h`) | `EPSR.IT`, `PC` | `BXWritePC`, `AdvanceInstr`, `ITAdvance`, conditions |
| fetcher (`internal/fetcher/`), decoder (`internal/decoder/`) | none | one or two halfwords to an instruction: a tree of splitters over some 150 decoders, each of which fills one struct of a union |
| executor (`internal/executor/`), ALU (`alu.h`, `thumb.h`) | none of its own | a switch over the instruction, one `Call` per class of instructions, instantiated with the operation |
| semihosting (`internal/semihosting/`) | exit status, host files | `Call` from a breakpoint |
| tracing, logger, command line tool, ELF reader | none that the emulation reads | text and file I/O |

### How they interact

Everything runs in one thread, inside a call of `Machine::Exec`. What is concurrent is the guest: an
exception can come between, and inside, any two instructions. `Emulator::Exec` calls
`Processor::Step`; a step calls `CheckExceptions<ExceptionPreFetch>`, fetches through the bus, calls
`CheckExceptions<ExceptionPostFetch>`, executes, and calls `CheckExceptions<ExceptionPostExec>`.
Exceptions are raised from everywhere by the callback `ExcTrig::SetPending`: by the bus (refused
accesses), by the executor (SVC, BKPT, division by zero, missing T bit), by SysTick. A handler
returns by writing an `EXC_RETURN` value to the pc, so `PcOps::BXWritePC` calls back into
`ExceptionReturn`, in the middle of the instruction that writes the pc. The state survives the call
of `Exec`; the host may call again, with another limit, or reset in between.

### What is hard

- the same exception can be raised at several instants of a step, and which of the three checks may
  take it decides about its return address;
- two stores tell which exceptions are unfinished, the active flags in the emulator and the frames
  in guest memory, and only the sequence of entries and returns keeps them in agreement;
- values are read before a check or a return moves them and used after it: the pc, the IT state, the
  stack pointer;
- frames are aligned with masks on addresses that wrap, and the padding is remembered in a bit of
  the frame;
- SysTick counts once per completed step, firmware writes its registers in any width, the host ends
  calls in the middle;
- a step may end early, before the timer was stepped, and the next call goes on from there, or
  resets the machine wherever it stands;
- decoder and executor share a union of structs, and some cases of the switch read a struct that
  belongs to another instruction; the executor asserts what the decoder must have refused;
- flags and the IT state are written by one instruction and decide about instructions much later; the
  IT state is advanced in as many places as there are ways for an instruction to end.

### What makes each component correct

- exception states: the counter is exact; no pending exception is lost; the scan finds the most
  urgent one;
- entry and return: active flags and frames agree; a return restores what the entry interrupted;
  addresses that are stacked lie in the interrupted code;
- processor: asynchronous exceptions are served within one instruction, faults before the next;
  nothing is executed that was not fetched; well-behaved firmware never makes the emulator give up;
- timer and loop: the period is exact whatever the host and the firmware do; ticks are neither lost
  nor invented; a limit is met exactly;
- bus and system control block: no fault is lost, also not one that is raised while its own handler
  is entered; the fault address belongs to the last fault when it is marked valid; flags disappear
  only when firmware clears them; a context that is damaged by its frame is announced by a fault;
- ALU: sums and their flags are right for every word, and for numbers of several words;
- decoder and executor: what the decoder lets through the executor can execute, with the operands the
  decoder wrote; a condition decides what it is named for; an instruction whose condition fails changes
  only the pc and the IT state; the IT state does what an IT block promises.

## The modules

| module | models | used by |
|---|---|---|
| `ExceptionStates` | the flags, the counter, priorities, selection, instants, as functions on a record | all below |
| `ExceptionScan` | the selection loop of `CheckExceptions`, one iteration per step | |
| `StackFrame` | the stack pointer arithmetic of `PushStack` and `PopStack` | `Processor` |
| `Processor` | `Processor::Step` inside the loop of `Emulator::Exec` | |
| `PeriodicTimer` | abstract: what a periodic timer promises | `SysTickLoop` (refinement) |
| `SysTickLoop` | SysTick, access to its registers, the loop of `Exec`, the calls of the host | |
| `Bus` | which accesses the participants refuse, and what that leaves in `CFSR` and `BFAR`, as functions on a record | `FaultStatus` |
| `FaultStatus` | a processor reduced to what faults depend on, over a memory with holes | |
| `InstrFormat` | bit fields, immediates, the union of structs between decoder and executor | all below |
| `NarrowDecoders`, `WideDecoders` | the decoders of the 16-bit and the 32-bit encodings | `DecoderTree` |
| `DecoderTree` | the splitters that choose the decoder | `InstrStep` |
| `ExecutorTable` | the switch of `Executor::Execute`: class, operation, struct and fields of each case | `InstrOps` |
| `Alu` | arithmetic and shifts on words of `Width` bits | `InstrOps` |
| `InstrOps` | the operations the classes are instantiated with | `InstrStep` |
| `InstrStep` | fetch, decode and execute one instruction after the other | `InstrProgram` |
| `InstrProgram` | the same, with what the flags were last computed from | |
| `ItBlock` | abstract: what an IT block promises | `InstrProgram` (refinement) |
| `MC…` | small instances for TLC | |
| `…Proofs` | theorems and their proofs | |

### Processor

The state: `exc` (the exception states), `cpu` (mode, IPSR, T bit, IT state, SPSEL, pc, LR, both
stack pointers), `frames` (the exception frames in memory), `phase` (where the step is), `local`
(`pc_this_instr`, `raw_instr`), `status` (whether `Exec` runs, has ended, or has failed).

A step of the code is a sequence of actions in its order: `PreFetchEntry` or `PreFetchNone`; one of
`FetchOk`, `FetchFault`, `FetchInvalidState`; `PostFetchEntry` or `PostFetchNone`; one `Exec…`
action; `PostExecEntry` or `PostExecNone`; `SysTickStep`. An entry performs `PushStack` and
`ExceptionTaken` whole, with the failure of the vector read between them; a return performs
`ExceptionReturn` whole, with the writes that the returning instruction makes after it.

The abstractions:

- A program location is the context that owns the code and an offset. This is what the properties
  about return addresses need; instructions are kinds, and any kind in the constant `Instrs` may
  come next. All instructions that only compute are `ExecPlain`.
- r0–r3, r12 and the flags travel through a frame as the location does and are not separate fields.
- Memory is a stack of frames. A read at the address of the last frame sees it, any other read sees
  an arbitrary frame (`Junk`), so a wrong stack pointer is not hidden. Stacks are assumed mapped:
  a frame that does not fit is the subject of `FaultStatus`.
- Firmware keeps to the procedure call standard: a handler returns with the `EXC_RETURN` it was
  given and a stack as it found it. `ExecFixUp` is what the fault handlers of
  `tests/system_tests/testbench` do to the frame below them.
- The field `ctx` of a frame and `it` in `local` are ghosts: no action reads them.
- A failed step (`panic`) ends the run; the host may reset the machine, then and whenever a call has
  ended (`HostReset`: `TakeReset`, and the entry point that `Load` may set). A reset leaves SP_process.
  A vector table that cannot be read, which would leave a reset half done, is left out.

### SysTickLoop

The state: the three registers, the exception states of SysTick, `reg` (what an instruction has just
loaded from CSR), `call` (the phase, limit, counter and result of the call of `Exec`), and `history`,
the ghosts of the properties. The actions follow one turn of the loop: `TakeTick` or `TakeNothing`;
an instruction (`ExecReadCsr`, `ExecWriteCsr`, `ExecWriteRvr`, `ExecWriteCvr`, `ExecReturn`,
`ExecOther`) or the end of the call (`ExecExit`, `ExecError`); `TimerStopped`, `TimerCountsDown` or
`TimerExpires`; `CountInstr`. Between calls the host may `HostExec` or `HostReset`.

Accesses to CSR have a width. A load of any width clears COUNTFLAG; a store of less than a word
replaces the rest of the register by zero, because CSR is not read before it is written. Bit 0 of
what is loaded is lost (`ExtractType`).

`history` remembers the value last loaded into the count and the steps since then, whether the count
has reached zero since the last access to CSR (`wrapped`) and with TICKINT since the handler was last
entered (`due`), and how many instructions of the call were executed and timed.

### Bus and FaultStatus

`Processor` assumes that frames reach memory; `FaultStatus` is about what happens when they do not.
The state: `fault` (the exception states, the set of flags in CFSR, BFAR), `cpu` (mode, IPSR, T bit,
stack pointer, LR), `mem` (the words of memory), `phase` as in `Processor`, and two ghosts: `frames`,
the contexts that were interrupted, and `history`, which remembers which faults were raised and not
yet served, the address of the last access that was refused of those that report one, and which
flags firmware has just cleared.

`RaiseRead` and `RaiseWrite` are the switches of `ReadOrRaise` and `WriteOrRaise`: reads write BFAR
for data and instructions and validate it for data only, writes do both for every kind. An entry
clears the pending flag, pushes the frame word by word, raising for every word that is refused, and
goes on to the handler; a return takes zero for every word it cannot read, and only the consistency
check at its end may stop it.

The abstractions: addresses count words; a frame has two words, LR and xPSR, which are what decides
whether and how a handler can return; there is one stack; the pc is left out, so any instruction may
follow any other, and vectors can be read. Stores of firmware do not hit frames. A thread may move
its stack pointer anywhere while no frame is live, into a hole too.

### The instruction modules

The state of `InstrStep`: `cpu` (the registers with both stack pointers, flags, IT state, T bit, nPRIV,
SPSEL, the divide-by-zero trap, the exceptions made pending), `phase`, `instr` (the decoded
instruction: id, flags, and the fields of its struct), `status` (what stopped the emulator), `failed`
(whose assertions about this instruction are false), and `steps`.

`Decode` fetches any of the opcodes that `Memory` holds at the pc and hands it, with the IT state, to
the tree of splitters; the result is an instruction or a status that ends `Exec`. `Execute` looks the
instruction up in `Cases`, as the switch does, and runs the `Call` of its class: `ExecuteData`,
`ExecuteMemory`, `ExecuteBranch` and `ExecuteSpecial` group the classes, in each of which the
condition, the reads, the operation, the write-back, the flags, the branch and the advance of pc and IT
state come in the order of the code. An instruction without a case is `Unhandled`: nothing changes,
the pc included. What a `Call` asserts is collected in `failed` and the action goes on as a release
build does.

A decoder is one definition, `Decoding(match, status, instruction)`, with what it refuses and what it
asserts. A field of a struct is known by its offset, so that a case reading the struct of another
instruction finds what lies there (`WrittenPlacement`, `ReadPlacement`).

The abstractions:

- Words have `Width` bits and a shift by 32 is one by `Width`; opcodes keep their 16 or 32 bits.
- The machine is in thread mode and what is made pending is not taken: that is `Processor`.
- A load delivers any word of `Loaded`; a refused access makes BusFault pending and delivers zero.
  What a store leaves in memory is not part of the state.
- What the host language leaves undefined is a choice: a shift by more than the width either masks
  the amount or clears the word, and the least integer divided by -1 either wraps or traps.

`InstrProgram` adds the ghost `setter`: the operands and the result that the flags were last computed
from, as numbers of as many words as a chain of ADC or SBC has reached. `ItBlock` is a queue of the
conditions owed to the instructions to come; `Owed` reads it off the IT state.

### ExceptionScan and PeriodicTimer

`Processor` takes an exception that `Selected` holds of, in one step; `ExceptionScan` is the loop that
finds it, with the test `>` that decides between equals. `PeriodicTimer` has a period, a count of
clocks left and an interrupt, and six actions; nothing in it knows of calls, limits, widths or phases.

## The runs

| run | question | result |
|---|---|---|
| `proc_testing` | does everything nest, return and get served, with well-behaved firmware? | 11 properties hold |
| `proc_wild` | what stays right when vectors are missing and stacks corrupted? | 3 properties hold |
| `exception_scan` | does the loop find the right exception? | 3 properties hold |
| `systick_loop` | is the timer a periodic timer, and the limit exact? | 7 properties hold |
| `fault_status` | what becomes of faults, and of contexts, when memory refuses accesses and frames? | 5 properties hold |
| `instructions` | do decoder, executor and ALU agree, over every region of both encodings and over sequences? | 11 properties hold |
| `tiebreak`, `latefault`, `spsel`, `itreturn`, `popreturn`, `addpc` | does the code do what its comments and assertions say? | it does not; see *Findings* |

**Processor, what holds.** `PendingCountExact`: the counter equals the number of pending flags.
`NoLostPending`: a pending flag is cleared only by activation. `ActiveIsChain`: the active exceptions
are the IPSRs of the contexts on the stacks. `PrioritiesNest`: each unfinished context is strictly
more urgent than those below. `ReturnsIntoContext`: stacked addresses lie in the interrupted code.
`RestoresContext`: a return restores pc, LR, mode, IPSR, T bit, SPSEL and both stack pointers.
`AsyncServed`: after the first check, no asynchronous exception that could preempt waits.
`NestingBounded`: entries that no return has undone never outnumber the active flags, although an
entry pushes its frame before it finds out that its vector cannot be read, and although a return that
reads a corrupted frame clears the flag of whatever IPSR says; so frames do not pile up on the stack.
`FaultsPrecise`: no fault that could preempt waits for another instruction. `OnlyFetchedExecutes`:
the uninitialised `raw_instr` is never decoded. `NoPanic`: the emulator never gives up.

**SysTickLoop, what holds.** `PeriodExact`: steps since the last load plus those left make the period.
`PendingTickIsDue`: SysTick is pending exactly when an expiry has not been served. `PolledWrapsSeen`:
polling CSR sees each expiry once. `LimitExact`: a call that ends at its limit has executed and timed
exactly so many instructions; one that ends otherwise has not timed its last. `TimerKeepsExpiring`:
an enabled timer expires again and again, whatever firmware writes. `IsPeriodicTimer`: refinement.

**FaultStatus, what holds.** `FaultsOwed`: BusFault and UsageFault are pending exactly when something
was refused since their handler was entered, by the entry itself too. `BfarNamesFault`: a valid BFAR
holds the address of the last refused access that reports one. This includes fetches, which
overwrite BFAR without validating it: a handler that finds PRECISERR, IBUSERR and BFARVALID together
cannot tell whose address it has, but it has the last one. `ClearedOnlyByName`: a flag disappears only by a store with a one
in its place. `LossWitnessed`: a context that comes back different from how it was interrupted does
not come back without a BusFault in between.

**InstrProgram, what holds.** `Dispatched`: what the decoder lets through has a case in the executor,
whose fields lie where the decoder wrote them. `AssertionsHold`: the executor's assertions hold of it
(but see `addpc`). `CompareDecides`: after a comparison or subtraction, of one word or carried through
several by SBCS, a condition passes exactly when the relation it is named for holds, unsigned or
signed. `CarryChains`: ADDS and ADCS, SUBS and SBCS, give the sum or difference of the long numbers,
with its carry and overflow. `SkippedKeepsState`: an instruction whose condition fails changes pc and
IT state only. `MidBlockFallsThrough`: only the last instruction of an IT block branches, but for one
encoding. `NarrowKeepsFlags`: 16-bit instructions in a block leave the flags alone, but for
comparisons. `WriteBackSurvives`: a load with write-back leaves both of its results. `CallReturns`: LR
leads back behind the call, also for BLX through LR. `IsItBlock`: refinement.

### Bounds

- Five exceptions, those that this code raises: HardFault, BusFault, UsageFault, SVCall, SysTick.
  With the default priorities only HardFault can preempt a handler, so nesting ends at depth two.
  `proc_testing` uses the table that a comment of the code offers for testing
  (`exceptions_ops.h:129-133`, SysTick less urgent), which gives depth three: a tick, a fault or
  supervisor call in its handler, a HardFault in that.
- `proc_wild` has the default priorities and no breakpoint, so its handlers do not nest: a second
  entry is one that follows a corrupted return, and a data fault in the thread is the one that finds
  its vector missing. Wild firmware that nests has too many corrupted stacks to enumerate;
  `NestingBoundedCorrect`, `PendingCountCorrect` and `AsyncServedCorrect` cover every depth.
- Two locations per context (`LastOff` 1) tell an instruction from the next one; in `proc_wild` no
  property is about locations and one suffices.
- IT blocks of length one in `proc_testing`, two in the runs about IT. One word on the stack per
  context (`MaxPush` 1): stack pointers that are and are not multiples of eight meet every alignment
  case of the frame.
- Addresses modulo 96, 128 or 256, both stacks starting inside: three frames fit or wrap, and 2^32 and
  these behave alike since only bit 2 and wrap-around matter. A reset leaves SP_process where an
  unfinished frame had moved it, so each size multiplies the states; the arithmetic itself is proved
  for every size (`StackPointerRoundTrip`).
- `exception_scan`: seven exceptions on three priorities, with ties of two and of three, and all
  states of flags that nesting allows.
- `systick_loop`: reload values 0 to 3, so both special values and two ordinary ones; limits -1, 0
  (both none), 1 and 3; counters stop at `MaxCount` + 1 in calls without limit. A counter at its cap
  affects only properties that name the cap.

- `fault_status`: four words, with a flash of one word, a hole after it, and two RAMs that share a
  word. A frame fits, loses its first word, its second or both, lies on flash, or wraps around the
  end of the address space. An instruction accesses one word or two. Firmware stores
  ones to CFSR or to either part, so it clears all flags, those of BusFault or those of UsageFault. It does not store to BFAR: such a
  store goes to CFSR (`sys_ctrl_block.h:90`) and would break `BfarNamesFault` and `ClearedOnlyByName`
  at once; the model has it (`WriteBfar`), the constant `Registers` leaves it out.

- `instructions`: words of six bits, enough for a shift amount beyond the width, a sign, and three
  words of carry. The first instruction is any value of bits [15:6] of a narrow opcode, or of bits
  [15:4] of a wide one, with a few values of each operand field (13, 15 and two others for the
  destination), outside an IT block, as the last one in it, in the middle of it, and where the
  condition fails. After it, or from boundary values in r0 and r1, come sequences of three out of
  eighteen instructions (arithmetic with and without carry, comparison, IT, branches, a load, a
  division). Loads deliver 1 or 62.

`CHECK_DEADLOCK FALSE` is set for `fault_status` and `instructions`, where an error ends the emulation
(and `MaxSteps` a sequence), and for `exception_scan`, where the scan ends. No other run may stop.

### Fairness

The emulator is one thread that does not wait for anything, so once called it goes on: `FairSpec` of
`SysTickLoop` is weak fairness of the loop (`ExecLoop`). The host owes nothing: it may never call
again, and a call may always end, so `TimerKeepsExpiring` assumes that the timer is stepped
infinitely often and stays enabled. `FairSpec` of `Processor` is weak fairness of its whole
next-state relation; the runs that refute a comment use it, and no property of `Processor` that holds
needs it.

### Findings

| run | the code | what it says of itself |
|---|---|---|
| `tiebreak` | of several pending exceptions of one priority the one with the highest number is taken (`exceptions_ops.h:964`) | the lowest (`:967`) |
| `latefault` | a fault that cannot preempt is taken after the handler's return instruction, with the address of that instruction as return address of the interrupted code (`processor.h:167`) | the address of the instruction executed (`:380`) |
| `spsel` | R13 of a thread with SPSEL set is the main stack pointer: a masked bit is compared with 1 (`reg_ops.h:67`) | the process stack pointer (`:72`) |
| `itreturn` | a return into an IT block advances the restored IT state once more (`post_exec.h:93`) | EPSR is loaded from memory (`exceptions_ops.h:780`) |
| `popreturn` | a handler that returns with `POP {.., pc}` pops its frame from, and leaves SP at, the wrong address (`variadic_load_instr.h:53`) | `SP_main` is set from the frame (`exceptions_ops.h:740`) |
| `addpc` | ADD pc, Rm is decoded, and the executor neither writes its result nor branches; the decoders of SMULL and STREX let a pc through to the same place (`op_decoders.h:2402`) | `assert(arg.Get() != RegisterId::kPc)` (`post_exec.h:114`) |

Two configurations beside the runs refute a comment in the same way. `MCProcessor_itfault.cfg`: a fault
in an IT block stacks the IT state of the next instruction (`processor.h:167`), not the one consistent
with the return address (`exceptions_ops.h:393`). `MCSysTickLoop_readback.cfg`: a load of a
memory-mapped register loses bit 0 (`bit_manip.h:155`), where the extracted bits should be returned
(`:144`).

Disagreements seen while reading, which no run refutes: frames are pushed with the fault kind
that `bus.h:16` keeps for exception return and popped with that of entry (`exceptions_ops.h:224`,
`:663`); a store to BFAR goes to CFSR (`sys_ctrl_block.h:90`); a refused fetch overwrites BFAR but
leaves its valid bit (`bus.h:136`); the initial stack pointer is not masked although the comment masks
it (`reset_logic.h:97`); SYST_RVR keeps 32 bits although `register_details.h:133` gives it 24; a limit of 0 means none, although `machine.h:85` says only -1 does; the option
`instr_limit` of the command line tool is stored in a shadowed variable (`main.cpp:223`).

In decoder and executor: a comparison binds tighter than `&`, so MOV.W to the pc is never refused, not
even in the middle of an IT block (`op_decoders.h:616`), and the block goes on at its target; the lowest
register of a list is computed as a `bool`, so STM with write-back fails for a base r0 or r1 that is the
lowest register it stores (`variadic_store_instr.h:36-41`); no splitter calls the decoder of LDRSB with
a negative or written-back offset; STMDB has a decoder and no case in the executor, so the pc never
leaves it; narrow SBC, ROR, CMN, MUL and MVN are unknown opcodes. The models have all of this as it is.

## The proofs

All theorems hold for every value of the constants that satisfies the assumptions named in the
modules (`ExcAssumption`, `PrioAssumption`, `AddrModAssumption`, `ProcessorAssumption`,
`SysTickAssumption`, …): any set of exceptions that contains the five, any table of priorities, any
vector table, any firmware unless said otherwise, addresses of any width.

- `ScanTypeCorrect`, `ScanCorrect` (`ExceptionScanProofs`): the loop finds what the processor model
  takes. The inductive invariant is `BestOfPassed`: the best so far is the best of the candidates passed.
- `StackPointerRoundTrip` (`ProcessorProofs`): popping a frame gives back the stack pointer that
  pushing it found, with padding, without, and across the wrap.
- `TypeCorrect`, `PendingCountCorrect`, `NothingLost` (`ProcessorProofs`). The inductive invariant
  `Typed` is `TypeOK` and `PendingCountExact` together: the type of the counter needs that it counts
  a subset of at most 48 exceptions. A reset leads to what holds at the start but for SP_process
  (`Restarted`), from which every invariant follows again.
- `NestingBoundedCorrect` (`ProcessorProofs`), for any firmware and any vector table. It is inductive
  with `Typed`: an entry that goes on takes an exception that is not active and makes it so, a return
  removes one frame and clears at most one flag, an entry that fails ends the run until the host
  resets the machine, and nothing else touches frames or flags.
- `AsyncServedCorrect` (`ProcessorProofs`), for any firmware, wild or not. The inductive invariant
  `Served` says what the checks leave behind: after an entry, and after a check before the fetch,
  nothing that could preempt; after a check behind the execution, nothing most urgent that is a fault.
  It rests on `MostUrgentExists`: of some candidates one is the most urgent, so a check that takes none
  has none to take, or one that must wait.
- `ActiveFlagsCorrect`, `PreemptionStrict`, `ContextRestored` (`ProcessorProofs`), for firmware without
  returns by POP (`"popreturn" \notin Instrs`), which does break them. The inductive invariant adds
  to `Typed` a chain of contexts: each frame lies where the context below it has its stack pointer,
  its EXC_RETURN names the stack and mode that it was pushed from, its fields agree with the ghost
  context, and every context is more urgent than the one below. It is needed because a return uses
  LR and a stack pointer that were set any number of nested entries and returns ago: that the top
  frame is found is only true because every frame below was sound.
- `NeverPanics` (`ProcessorProofs`), with readable vectors and firmware without error exits besides:
  the consistency check at the end of a return never fails.
- `FaultsPreciseCorrect`, `OnlyFetchedCorrect`, `ReturnAddressCorrect` (`ProcessorProofs`), under
  `FaultsPreempt`: returns by BX only, code that a fault cannot preempt raises none, and no vector lacks
  the Thumb bit. Without the second they do not hold, as `latefault` shows. The inductive invariant
  `PreciseInv` adds to the chain and to `Served` that every context is in its own code and has a clear T
  bit only where UsageFault can preempt (`InPlace`), and that inside a step at most one fault is
  pending, which nothing keeps from being taken, with `pc_this_instr` in the code that raised it
  (`Prompt`). The three need one another: an uninitialised opcode is not executed because UsageFault is
  taken at once, which holds because no other fault is left over, for then an address in other code
  would be stacked.
- `FaultsOwedCorrect`, `BfarCorrect`, `ClearedByName` (`FaultStatusProofs`), for every layout of the
  address space, every number of accesses and every table of priorities; the last two for firmware
  that does not store to BFAR (`"BFAR" \notin Registers`). Each property is inductive as it stands; the work is
  in lemmas about what a sequence of accesses leaves behind (`ReadPending`, `WritePending`,
  `ReadStatus`, `WriteStatus`, `EntryStatus`).
- `TimerTypes`, `PeriodCorrect`, `PendingTickCorrect`, `LimitCorrect`, `PolledWrapsCorrect`,
  `ImplementsPeriodicTimer` (`SysTickLoopProofs`), for every largest reload value and set of limits. The inductive invariant
  adds to the properties that inside a call every instruction was timed and, under a limit, the
  counter equals the ghost and has not passed the limit. The refinement maps every action to a step
  of `PeriodicTimer` or a stutter; the mapped count is one where the register holds zero.
  For polling, COUNTFLAG equals the ghost (`FlagIsWrap`), and only a load of CSR fills the register.
- `StackCorrect`, `LossIsWitnessed`, `FaultTypeCorrect` (`FaultStatusProofs`), for every layout of the
  address space whose stack holds a frame for each level of urgency (`StackHoldsNesting`). Without that
  frames overlap across the wrap, and a return pops an EXC_RETURN for an xPSR. The inductive invariant
  `StackInv` says of the contexts that they are nested by urgency, each one frame below the last, and of each frame
  that its words lie where the context after it has its stack pointer, as far as memory took them; where
  it did not, BusFault was pending before the return. Both sides are needed: that a new frame hits no
  other follows from the number of levels, which bounds the depth.
- `SumCorrect`, `ComparisonDecides`, `CarryExtendsSum`, `BitwiseCorrect` (`InstrProofs`), for words of
  every size: value, carry and overflow of `AddWithCarry`; what the flags of a comparison say of the
  numbers; that a carry takes a sum from words to longer numbers; AND, OR and EOR bit by bit, which
  `Alu` computes as sums of powers.
- `ProgramInvariant`, `InstrTypeCorrect`, `AssertionsCorrect`, `DispatchCorrect` (`InstrProofs`), for
  words of every size, whatever memory holds, a load delivers or the bus refuses. The inductive
  invariant `IInv` adds to `InstrTypeOK` and `AssertionsHold` that the pc is even and that the
  instruction at hand is one the decoder lets through in the present IT state (`Decoded`): the
  assertions of the executor are about registers that some decoder excluded one phase earlier, and an
  odd pc would pass through BX into the ARM state. TLC checks `IInv` on the instances of the run
  `instructions` as well. The work is in two case analyses. `DecoderProofs` proves of
  every decoder and every splitter that what it returns is `Sound`: it has the fields that the struct
  of its opcode has, in their ranges (`Formed`), and where the decoder asserted nothing false the
  registers that the executor asserts it gets (`Valid`); then that the table of the executor fits
  (`CasesFit`, `PlacesFit`). `InstrProofs` proves of every call of the executor an `Outcome`: it falls
  through, jumps, or ends, and keeps types, flags and IT state accordingly.
- `NarrowKeepsFlagsCorrect`, `MidBlockCorrect`, `SkippedKeepsStateCorrect`, `CallReturnsCorrect`,
  `WriteBackCorrect` (`InstrProofs`): the action properties of `InstrProgram`, each from `IInv` and what
  the calls concerned do.
- `ImplementsItBlock` (`InstrProofs`): every step of a program is one of `ItBlock` or a stutter. The
  mapping `Owed` reads the conditions owed out of the eight bits of the IT state; `AdvanceShifts` is
  the core: the shift of five bits in `ITAdvance` takes the first condition off, for each of the
  256 states.
- `SetterInvariant`, `CompareDecidesCorrect`, `CarryChainsCorrect` (`InstrProofs`), for words of every
  size and numbers of any number of words. The inductive invariant adds to `IInv` that the flags are
  those of the sum kept in `setter` (`Counted`), where a difference is the sum with the complement
  and a carry: only so stated can ADCS and SBCS extend it by a word. `FirstSum` and `NextSum` are the
  arithmetic, for a radix that grows with every word; `SumsCalculated` says of every class that adds
  or subtracts what it sums, `FlagsTaken` that the step stores just those flags and that value, and
  `FlagsKept` that every other instruction leaves the flags alone, the traps of a division and refused
  accesses included.
- `DivMod`, `SetInduction` and their kind (`ArithmeticFacts`): quotient and remainder, and an induction
  over the elements of a set of numbers that is stated without an operator as parameter.

The proofs about instructions use these assumptions: `HalfAssumption`, `WidthAssumption` and
`ControlAssumption` (words of at least two bits), `PowerAssumption` (what defines
exponentiation, which the provers know for numerals only), and the types of `Memory`, `Loaded` and the
states a program starts from, with an even pc as reset leaves it.

Only model-checked: `TimerKeepsExpiring`, since liveness under fairness and ENABLED are out of the
prover's reach. So are recursive operators, which is why no module here declares one.

## Not modelled

Tracing and mnemonics, the logger, the command line tool and the ELF reader are text and I/O, as is the
host side of semihosting, of which only the request to exit is modelled. Special registers are fields
of the state, and their packing into XPSR, CONTROL and SysCtrl is not modelled, nor is the byte order of
memory. nPRIV, and MSR to MSP and PSP, are in `InstrStep` and not in `Processor`: nothing in entry or
return reads nPRIV, and firmware that writes a stack pointer breaks the calling convention that
`Processor` assumes. A reset that fails because the vector table cannot be read is left out: it returns
an error after the active flags are cleared and before IPSR is, and a host that goes on regardless has
a thread with the number of an exception.

## Plan

Done: `ExceptionStates`, `StackFrame`, `Processor` with the reset of a machine that has run,
`ExceptionScan`, `SysTickLoop` with `PeriodicTimer`, `Bus` and `FaultStatus`, the decoder, the executor
and the ALU with `InstrProgram` and `ItBlock`, and the proofs above. What would come next:

1. `SpecialRegisters`: packing of `XPSR`, `CONTROL` and SysCtrl; a round trip theorem.
2. `Preemption`: an abstract specification of nested contexts, which `Processor` implements.
3. Processor and timer composed, for starvation by a timer that ticks at every step.
