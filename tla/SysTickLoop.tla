----------------------------- MODULE SysTickLoop -----------------------------
(***************************************************************************)
(* SysTick (peripherals/sys_tick.h) in the loop of Emulator::Exec          *)
(* (emulator.h) and the host that calls Exec and Reset (machine.cpp).  One *)
(* turn of the loop is Processor::Step, SysTick::Step and the count of     *)
(* instructions.  Of Processor::Step this module keeps what touches the    *)
(* timer: an exception check that may take SysTick, and an instruction     *)
(* that may access the timer's registers, return from the SysTick handler  *)
(* or end the call.  Module Processor has the rest.                        *)
(*                                                                         *)
(* Of SYST_CSR the bits 0, 1 and 16 are kept.  An access is aligned: a     *)
(* word, the byte or halfword with bits 0 and 1 ("low"), the one with bit  *)
(* 16 ("high"), or a byte with none of them ("rest").                      *)
(***************************************************************************)
EXTENDS ExceptionStates

CONSTANTS
  MaxReload,   \* bound: the largest reload value that firmware writes
  Limits,      \* the max_instructions that the host passes to Exec
  MaxCount     \* bound: where the counters stop in a call without a limit

ASSUME SysTickAssumption ==
  /\ MaxReload \in Nat
  /\ Limits \subseteq Int
  /\ MaxCount \in Nat /\ \A limit \in Limits : limit <= MaxCount

VARIABLES
  exc,      \* the exception states
  csr,      \* SYST_CSR: enable, tickint and countflag
  rvr,      \* SYST_RVR
  cvr,      \* SYST_CVR
  reg,      \* the register that an instruction has just loaded from CSR
  call,     \* Exec: where its loop is, its locals and its last result
  history   \* ghost: what the properties remember, read by no action

machineVars == <<exc, csr, rvr, cvr, reg, call>>
vars        == <<exc, csr, rvr, cvr, reg, call, history>>

Bit   == {0, 1}
Parts == {"word", "low", "high", "rest"}
Csr   == [enable : Bit, tickint : Bit, countflag : Bit]

Phases  == {"idle", "check", "instr", "tick", "count"}
Results == {"none", "success", "error", "limit"}

NoLoad == [part |-> "none", enable |-> 0, tickint |-> 0, countflag |-> 0]

\* ++n; the counters of the code are 64 bits wide.
Up(n) == IF n <= MaxCount THEN n + 1 ELSE n

\* A new machine; TakeReset leaves the timer's registers alone.
Init ==
  /\ exc = InitExceptionStates
  /\ csr = [enable |-> 0, tickint |-> 0, countflag |-> 0]
  /\ rvr = 0 /\ cvr = 0
  /\ reg = NoLoad
  /\ call = [phase |-> "idle", limit |-> 0, count |-> 0, result |-> "none"]
  /\ history = [load |-> 0, steps |-> 0, wrapped |-> 0, due |-> 0,
                executed |-> 0, timed |-> 0]

At(phase)   == call.phase = phase
Goto(phase) == call' = [call EXCEPT !.phase = phase]

------------------------------------------------------------------------------
(* The registers, as MemMapRw and SysTick give access to them *)

\* ExtractType masks with (the mask of the type) - 1: bit 0 of what is loaded
\* is lost, ENABLE in a word or low part, COUNTFLAG in a high part.
ExtractType(part) ==
  [part      |-> part,
   enable    |-> 0,
   tickint   |-> IF part \in {"word", "low"} THEN csr.tickint ELSE 0,
   countflag |-> IF part = "word" THEN csr.countflag ELSE 0]

\* Mutant: a load leaves COUNTFLAG set.
ReadCsrKeepsFlag(part) ==
  /\ reg' = ExtractType(part)
  /\ history' = [history EXCEPT !.wrapped = 0]
  /\ UNCHANGED <<exc, csr, rvr, cvr>>

\* A load of any part reads the register and so clears COUNTFLAG.
ReadCsr(part) ==
  /\ reg' = ExtractType(part)
  /\ csr' = [csr EXCEPT !.countflag = 0]
  /\ history' = [history EXCEPT !.wrapped = 0]
  /\ UNCHANGED <<exc, rvr, cvr>>

\* Mutant: every write with ENABLE set starts the period again.
StartsAlways(enable) == enable = 1

\* The write that enables the timer starts a period.
Starts(enable) == csr.enable = 0 /\ enable = 1

\* A store to CSR does not read first: what is not stored becomes zero.
WriteCsr(part, enable, tickint) ==
  LET stored == part \in {"word", "low"}
      on     == IF stored THEN enable ELSE 0
  IN  /\ csr' = [enable |-> on, tickint |-> IF stored THEN tickint ELSE 0,
                 countflag |-> 0]
      /\ cvr' = IF Starts(on) THEN rvr ELSE cvr
      /\ history' = [history EXCEPT !.wrapped = 0,
           !.load  = IF Starts(on) THEN rvr ELSE @,
           !.steps = IF Starts(on) THEN 0 ELSE @]
      /\ UNCHANGED <<exc, rvr, reg>>

WriteRvr(value) ==
  /\ rvr' = value
  /\ UNCHANGED <<exc, csr, cvr, reg, history>>

\* Any store to CVR clears the count.
WriteCvr ==
  /\ cvr' = 0
  /\ history' = [history EXCEPT !.load = 0, !.steps = 0]
  /\ UNCHANGED <<exc, csr, rvr, reg>>

------------------------------------------------------------------------------
(* Processor::Step *)

\* Taken unless code runs that SysTick does not preempt.
TakeTick ==
  /\ At("check") /\ SysTick \in exc.pending \ exc.active
  /\ exc' = SetActive(ClearPending(exc, SysTick), SysTick)
  /\ Goto("instr")
  /\ reg' = NoLoad
  /\ history' = [history EXCEPT !.due = 0]
  /\ UNCHANGED <<csr, rvr, cvr>>

\* Nothing is taken, or an exception that is not modelled here.
TakeNothing ==
  /\ At("check")
  /\ Goto("instr")
  /\ reg' = NoLoad
  /\ UNCHANGED <<exc, csr, rvr, cvr, history>>

Retires == At("instr") /\ Goto("tick")

ExecOther == Retires /\ UNCHANGED <<exc, csr, rvr, cvr, reg, history>>

ExecReadCsr == Retires /\ \E part \in Parts : ReadCsr(part)

ExecWriteCsr ==
  /\ Retires
  /\ \E part \in Parts, enable \in Bit, tickint \in Bit :
       WriteCsr(part, enable, tickint)

ExecWriteRvr == Retires /\ \E value \in 0 .. MaxReload : WriteRvr(value)

ExecWriteCvr == Retires /\ WriteCvr

ExecReturn ==
  /\ Retires
  /\ SysTick \in exc.active
  /\ exc' = ClearActive(exc, SysTick)
  /\ UNCHANGED <<csr, rvr, cvr, reg, history>>

\* A request to end, or an error of Step: Exec returns before SysTick::Step.
Ends(result) ==
  /\ At("instr")
  /\ call' = [call EXCEPT !.phase = "idle", !.result = result]
  /\ history' = [history EXCEPT !.executed = Up(@)]
  /\ UNCHANGED <<exc, csr, rvr, cvr, reg>>

ExecExit  == Ends("success")
ExecError == Ends("error")

Step ==
  \/ TakeTick \/ TakeNothing
  \/ ExecOther \/ ExecReadCsr \/ ExecWriteCsr \/ ExecWriteRvr \/ ExecWriteCvr
  \/ ExecReturn \/ ExecExit \/ ExecError

------------------------------------------------------------------------------
(* SysTick::Step *)

\* Mutants: the count is compared with one, or with zero, only.
ExpiresAtOne  == cvr = 1
ExpiresAtZero == cvr = 0

Expires == cvr <= 1

\* Mutant: the exception does not depend on TICKINT.
TickInterruptAlways == SetPending(exc, SysTick)

TickInterrupt == IF csr.tickint = 1 THEN SetPending(exc, SysTick) ELSE exc

\* What every SysTick::Step does to the ghosts: one more instruction has been
\* executed, and the timer has followed it.
Timed(h) == [h EXCEPT !.timed = Up(@), !.executed = Up(@)]

TimerStopped ==
  /\ At("tick") /\ csr.enable = 0
  /\ history' = Timed(history)
  /\ Goto("count")
  /\ UNCHANGED <<exc, csr, rvr, cvr, reg>>

TimerCountsDown ==
  /\ At("tick") /\ csr.enable = 1 /\ ~Expires
  /\ cvr' = cvr - 1
  /\ history' = [Timed(history) EXCEPT !.steps = @ + 1]
  /\ Goto("count")
  /\ UNCHANGED <<exc, csr, rvr, reg>>

TimerExpires ==
  /\ At("tick") /\ csr.enable = 1 /\ Expires
  /\ cvr' = rvr
  /\ exc' = TickInterrupt
  /\ csr' = [csr EXCEPT !.countflag = 1]
  /\ history' = [Timed(history) EXCEPT !.steps = 0, !.load = rvr,
       !.wrapped = 1, !.due = IF csr.tickint = 1 THEN 1 ELSE @]
  /\ Goto("count")
  /\ UNCHANGED <<rvr, reg>>

------------------------------------------------------------------------------
(* Emulator::Exec and the host *)

\* Mutant: one instruction too many.
LimitReachedLate(count) == call.limit > 0 /\ count > call.limit

\* A limit of zero or less is none.
LimitReached(count) == call.limit > 0 /\ count >= call.limit

CountInstr ==
  /\ At("count")
  /\ call' = [call EXCEPT !.count = Up(@),
       !.phase  = IF LimitReached(call.count + 1) THEN "idle" ELSE "check",
       !.result = IF LimitReached(call.count + 1) THEN "limit" ELSE @]
  /\ UNCHANGED <<exc, csr, rvr, cvr, reg, history>>

HostExec ==
  /\ At("idle")
  /\ \E limit \in Limits :
       call' = [phase |-> "check", limit |-> limit, count |-> 0, result |-> "none"]
  /\ history' = [history EXCEPT !.executed = 0, !.timed = 0]
  /\ UNCHANGED <<exc, csr, rvr, cvr, reg>>

\* TakeReset, between two calls.
HostReset ==
  /\ At("idle")
  /\ exc' = InitExceptionStates
  /\ history' = [history EXCEPT !.due = 0]
  /\ UNCHANGED <<csr, rvr, cvr, reg, call>>

ExecLoop == Step \/ TimerStopped \/ TimerCountsDown \/ TimerExpires \/ CountInstr

Next == ExecLoop \/ HostExec \/ HostReset

Spec == Init /\ [][Next]_vars

\* A call of Exec that has begun goes on; the host owes nothing.
FairSpec == Spec /\ WF_vars(ExecLoop)

------------------------------------------------------------------------------
(* Properties *)

\* Every variable has the values that the code can give it.
TimerTypeOK ==
  /\ exc \in [pending : SUBSET {SysTick}, count : {0, 1}, active : SUBSET {SysTick}]
  /\ csr \in Csr
  /\ rvr \in 0 .. MaxReload /\ cvr \in 0 .. MaxReload
  /\ reg \in [part : Parts \cup {"none"}, enable : Bit, tickint : Bit, countflag : Bit]
  /\ call \in [phase : Phases, limit : {0} \cup Limits, count : 0 .. MaxCount + 1,
               result : Results]
  /\ history \in [load : 0 .. MaxReload, steps : Nat, wrapped : Bit,
       due : Bit, executed : 0 .. MaxCount + 1, timed : 0 .. MaxCount + 1]

\* The period is exact: the steps of the timer since the count was last loaded
\* and those that are left are the value loaded, or one when that was zero,
\* however the execution was cut into calls and whatever was written to RVR.
PeriodExact ==
  history.steps + (IF cvr = 0 THEN 1 ELSE cvr)
    = (IF history.load = 0 THEN 1 ELSE history.load)

\* Firmware that polls CSR with word loads sees COUNTFLAG exactly when the
\* count has reached zero since its last access.
PolledWrapsSeen ==
  [][reg = NoLoad /\ reg'.part = "word" =>
       reg'.countflag = history.wrapped]_vars

\* SysTick is pending exactly when the count has reached zero with TICKINT set
\* since the handler was last entered: no tick is lost, none is invented.
PendingTickIsDue == SysTick \in exc.pending <=> history.due = 1

\* A call that ends at its limit has executed exactly that many instructions,
\* each followed by one step of the timer; a call that ends otherwise has
\* executed no more, and its last instruction was not followed by one.
LimitExact ==
  /\ call.limit > 0 => history.executed <= call.limit
  /\ call.result = "limit" =>
       history.executed = call.limit /\ history.timed = call.limit
  /\ call.result \in {"success", "error"} /\ history.executed <= MaxCount =>
       history.timed = history.executed - 1

\* A timer that stays enabled in an execution that goes on reaches zero again
\* and again, whatever firmware writes to its registers.
TimerKeepsExpiring ==
  <>[](csr.enable = 1) /\ []<>At("tick") => []<><<TimerExpires>>_vars

\* All of this is a periodic timer.
Timer == INSTANCE PeriodicTimer WITH
  running <- csr.enable = 1,
  reload  <- rvr,
  left    <- IF cvr = 0 THEN 1 ELSE cvr,
  irq     <- SysTick \in exc.pending

IsPeriodicTimer == Timer!TimerSpec

\* A word load of CSR gives what the register holds.
CsrReadsBack ==
  [][reg = NoLoad /\ reg'.part = "word" => reg'.enable = csr.enable]_vars
=============================================================================
