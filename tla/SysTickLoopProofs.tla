-------------------------- MODULE SysTickLoopProofs --------------------------
(***************************************************************************)
(* Proofs about the system timer in the loop of Exec, for every bound on   *)
(* the reload value and every set of limits: the period is exact, a call   *)
(* executes what its limit says, a pending SysTick is always due, and the  *)
(* whole implements a periodic timer.                                      *)
(***************************************************************************)
EXTENDS SysTickLoop, TLAPS

\* The sets of TimerTypeOK.
TickStates == [pending : SUBSET {SysTick}, count : {0, 1}, active : SUBSET {SysTick}]

Regs == [part : Parts \cup {"none"}, enable : Bit, tickint : Bit, countflag : Bit]

Calls == [phase : Phases, limit : {0} \cup Limits, count : 0 .. MaxCount + 1,
          result : Results]

Histories == [load : 0 .. MaxReload, steps : Nat, wrapped : Bit, due : Bit,
              executed : 0 .. MaxCount + 1, timed : 0 .. MaxCount + 1]

\* The counter of the exception states, which hold one flag here.
Counted(x) == x.count = IF SysTick \in x.pending THEN 1 ELSE 0

\* A call that goes on has timed every instruction; under a limit its counter
\* is right and the limit not passed.
CallInv ==
  /\ ~At("idle") =>
       /\ call.result = "none"
       /\ history.timed = history.executed
  /\ ~At("idle") /\ call.limit > 0 =>
       /\ history.executed = IF At("count") THEN call.count + 1 ELSE call.count
       /\ At("count") => history.executed <= call.limit
       /\ ~At("count") => history.executed < call.limit
  /\ LimitExact

TimerInv == TimerTypeOK /\ Counted(exc) /\ PendingTickIsDue /\ PeriodExact /\ CallInv

LEMMA TypeParts ==
  TimerTypeOK <=>
    /\ exc \in TickStates /\ csr \in Csr
    /\ rvr \in 0 .. MaxReload /\ cvr \in 0 .. MaxReload
    /\ reg \in Regs /\ call \in Calls /\ history \in Histories
  BY DEF TimerTypeOK, TickStates, Regs, Calls, Histories

LEMMA UpType == \A n \in 0 .. MaxCount + 1 : Up(n) \in 0 .. MaxCount + 1
  BY SysTickAssumption DEF Up

\* The operations on the exception states, for SysTick alone.
LEMMA TickOperations ==
  ASSUME NEW x \in TickStates, Counted(x)
  PROVE  /\ SetPending(x, SysTick) \in TickStates
         /\ Counted(SetPending(x, SysTick))
         /\ SysTick \in SetPending(x, SysTick).pending
         /\ ClearActive(x, SysTick) \in TickStates
         /\ Counted(ClearActive(x, SysTick))
         /\ ClearActive(x, SysTick).pending = x.pending
         /\ SysTick \in x.pending =>
              LET y == SetActive(ClearPending(x, SysTick), SysTick)
              IN  y \in TickStates /\ Counted(y) /\ SysTick \notin y.pending
<1>1. x.pending \cup {SysTick} = {SysTick} /\ x.active \cup {SysTick} = {SysTick}
  BY DEF TickStates
<1>2. x.pending \ {SysTick} = {} /\ x.active \ {SysTick} = {}
  BY DEF TickStates
<1>3. SetPending(x, SysTick) \in TickStates /\ Counted(SetPending(x, SysTick))
  BY <1>1 DEF SetPending, TickStates, Counted
<1>4. ClearActive(x, SysTick) \in TickStates /\ Counted(ClearActive(x, SysTick))
  BY <1>2 DEF ClearActive, TickStates, Counted
<1>5. ASSUME SysTick \in x.pending
      PROVE  LET y == SetActive(ClearPending(x, SysTick), SysTick)
             IN  y \in TickStates /\ Counted(y) /\ SysTick \notin y.pending
  BY <1>1, <1>2, <1>5 DEF SetActive, ClearPending, TickStates, Counted
<1> QED
  BY <1>3, <1>4, <1>5 DEF SetPending, ClearActive

LEMMA InitTimerInv == Init => TimerInv
  BY SysTickAssumption
     DEF Init, TimerInv, TimerTypeOK, Counted, PendingTickIsDue, PeriodExact,
         CallInv, LimitExact, InitExceptionStates, Csr, Bit, NoLoad, Phases,
         Results, At

------------------------------------------------------------------------------
(* Every step preserves the invariant *)

\* What a step must establish.
LEMMA Establish ==
  ASSUME exc' \in TickStates, Counted(exc'), csr' \in Csr,
         rvr' \in 0 .. MaxReload, cvr' \in 0 .. MaxReload, reg' \in Regs,
         call' \in Calls, history' \in Histories,
         PendingTickIsDue', PeriodExact', CallInv'
  PROVE  TimerInv'
  BY DEF TimerInv, TimerTypeOK, Counted, TickStates, Regs, Calls, Histories

\* What holds before a step, in the terms of Establish.
LEMMA Before ==
  TimerInv =>
    /\ exc \in TickStates /\ Counted(exc) /\ csr \in Csr
    /\ rvr \in 0 .. MaxReload /\ cvr \in 0 .. MaxReload
    /\ reg \in Regs /\ call \in Calls /\ history \in Histories
    /\ PendingTickIsDue /\ PeriodExact /\ CallInv
  BY TypeParts DEF TimerInv

\* Where the loop goes when an instruction or the exception check is over.
LEMMA GotoCall ==
  ASSUME TimerInv, NEW p \in {"instr", "tick"}, Goto(p),
         At("check") \/ At("instr"),
         history'.executed = history.executed, history'.timed = history.timed
  PROVE  CallInv' /\ call' \in Calls
<1>1. call' \in Calls
  BY DEF TimerInv, TimerTypeOK, Goto, Calls, Phases
<1>2. CallInv'
  BY SysTickAssumption
     DEF TimerInv, TimerTypeOK, CallInv, LimitExact, Goto, At
<1> QED
  BY <1>1, <1>2

\* The exception check.
LEMMA CheckInv == TimerInv /\ (TakeTick \/ TakeNothing) => TimerInv'
<1> SUFFICES ASSUME TimerInv, TakeTick \/ TakeNothing
             PROVE  TimerInv'
  OBVIOUS
<1>1. CallInv' /\ call' \in Calls
  <2>1. history'.executed = history.executed /\ history'.timed = history.timed
    BY Before DEF TakeTick, TakeNothing, Histories
  <2> QED
    BY <2>1, GotoCall DEF TakeTick, TakeNothing
<1>2. NoLoad \in Regs
  BY DEF NoLoad, Regs, Bit
<1>3. CASE TakeTick
  <2>1. exc' \in TickStates /\ Counted(exc') /\ SysTick \notin exc'.pending
    BY <1>3, Before, TickOperations DEF TakeTick
  <2>2. history' \in Histories /\ history'.due = 0
    BY <1>3, Before DEF TakeTick, Histories, Bit
  <2>3. PendingTickIsDue'
    BY <2>1, <2>2 DEF PendingTickIsDue
  <2>4. PeriodExact'
    BY <1>3, Before DEF TakeTick, PeriodExact, Histories
  <2> QED
    BY <1>1, <1>2, <1>3, <2>1, <2>2, <2>3, <2>4, Before, Establish DEF TakeTick
<1>4. CASE TakeNothing
  <2>1. PendingTickIsDue' /\ PeriodExact'
    BY <1>4, Before DEF TakeNothing, PendingTickIsDue, PeriodExact
  <2> QED
    BY <1>1, <1>2, <1>4, <2>1, Before, Establish DEF TakeNothing
<1> QED
  BY <1>3, <1>4

\* The accesses to the registers of the timer.
LEMMA AccessInv ==
  TimerInv /\ (ExecReadCsr \/ ExecWriteCsr \/ ExecWriteRvr \/ ExecWriteCvr)
    => TimerInv'
<1> SUFFICES ASSUME TimerInv,
                    ExecReadCsr \/ ExecWriteCsr \/ ExecWriteRvr \/ ExecWriteCvr
             PROVE  TimerInv'
  OBVIOUS
<1>1. CallInv' /\ call' \in Calls
  <2>1. Retires
    BY DEF ExecReadCsr, ExecWriteCsr, ExecWriteRvr, ExecWriteCvr
  <2>2. history'.executed = history.executed /\ history'.timed = history.timed
    BY Before DEF ExecReadCsr, ReadCsr, ExecWriteCsr, WriteCsr, ExecWriteRvr,
       WriteRvr, ExecWriteCvr, WriteCvr, Histories
  <2> QED
    BY <2>1, <2>2, GotoCall DEF Retires
<1>2. PendingTickIsDue' /\ UNCHANGED exc
  <2>1. history'.due = history.due /\ UNCHANGED exc
    BY Before DEF ExecReadCsr, ReadCsr, ExecWriteCsr, WriteCsr, ExecWriteRvr,
       WriteRvr, ExecWriteCvr, WriteCvr, Histories
  <2> QED
    BY <2>1, Before DEF PendingTickIsDue
<1>3. CASE ExecReadCsr
  <2>1. PICK part \in Parts : ReadCsr(part)
    BY <1>3 DEF ExecReadCsr
  <2>2. reg' \in Regs
    BY <2>1, Before DEF ReadCsr, ExtractType, Csr, Bit, Regs
  <2>3. csr' \in Csr
    BY <2>1, Before DEF ReadCsr, Csr, Bit
  <2>4. history' \in Histories /\ PeriodExact'
    BY <2>1, Before DEF ReadCsr, Histories, Bit, PeriodExact
  <2> QED
    BY <1>1, <1>2, <2>1, <2>2, <2>3, <2>4, Before, Establish DEF ReadCsr
<1>4. CASE ExecWriteCsr
  <2>1. PICK part \in Parts, enable \in Bit, tickint \in Bit :
          WriteCsr(part, enable, tickint)
    BY <1>4 DEF ExecWriteCsr
  <2> DEFINE on == IF part \in {"word", "low"} THEN enable ELSE 0
  <2>2. csr' \in Csr
    BY <2>1 DEF WriteCsr, Csr, Bit
  <2>3. cvr' = (IF Starts(on) THEN rvr ELSE cvr)
    BY <2>1 DEF WriteCsr
  <2>4. /\ history' \in Histories
        /\ history'.load = (IF Starts(on) THEN rvr ELSE history.load)
        /\ history'.steps = (IF Starts(on) THEN 0 ELSE history.steps)
    BY <2>1, Before DEF WriteCsr, Histories, Bit
  <2>5. PeriodExact'
    BY <2>3, <2>4, Before DEF PeriodExact, Histories
  <2> QED
    BY <1>1, <1>2, <2>1, <2>2, <2>3, <2>4, <2>5, Before, Establish DEF WriteCsr
<1>5. CASE ExecWriteRvr
  <2>1. PeriodExact'
    BY <1>5, Before DEF ExecWriteRvr, WriteRvr, PeriodExact
  <2> QED
    BY <1>1, <1>2, <1>5, <2>1, Before, Establish DEF ExecWriteRvr, WriteRvr
<1>6. CASE ExecWriteCvr
  <2>1. /\ history' \in Histories /\ history'.load = 0 /\ history'.steps = 0
        /\ cvr' = 0
    <3>1. /\ cvr' = 0 /\ history' = [history EXCEPT !.load = 0, !.steps = 0]
          /\ history \in Histories
      BY <1>6, Before DEF ExecWriteCvr, WriteCvr
    <3>2. 0 \in 0 .. MaxReload /\ 0 \in Nat
      BY SysTickAssumption
    <3> QED
      BY <3>1, <3>2 DEF Histories
  <2>2. PeriodExact'
    BY <2>1 DEF PeriodExact
  <2> QED
    BY <1>1, <1>2, <1>6, <2>1, <2>2, Before, Establish, SysTickAssumption
       DEF ExecWriteCvr, WriteCvr
<1> QED
  BY <1>3, <1>4, <1>5, <1>6

\* The instructions that do not access them.
LEMMA OtherInv ==
  TimerInv /\ (ExecOther \/ ExecReturn \/ ExecExit \/ ExecError) => TimerInv'
<1> SUFFICES ASSUME TimerInv, ExecOther \/ ExecReturn \/ ExecExit \/ ExecError
             PROVE  TimerInv'
  OBVIOUS
<1>1. CASE ExecOther
  <2>1. CallInv' /\ call' \in Calls
    BY <1>1, GotoCall DEF ExecOther, Retires
  <2>2. PendingTickIsDue' /\ PeriodExact'
    BY <1>1, Before DEF ExecOther, PendingTickIsDue, PeriodExact
  <2> QED
    BY <1>1, <2>1, <2>2, Before, Establish DEF ExecOther
<1>2. CASE ExecReturn
  <2>1. CallInv' /\ call' \in Calls
    BY <1>2, GotoCall DEF ExecReturn, Retires
  <2>2. exc' \in TickStates /\ Counted(exc') /\ exc'.pending = exc.pending
    BY <1>2, Before, TickOperations DEF ExecReturn
  <2>3. PendingTickIsDue' /\ PeriodExact'
    BY <1>2, <2>2, Before DEF ExecReturn, PendingTickIsDue, PeriodExact
  <2> QED
    BY <1>2, <2>1, <2>2, <2>3, Before, Establish DEF ExecReturn
<1>3. CASE ExecExit \/ ExecError
  <2>1. PICK result \in {"success", "error"} : Ends(result)
    BY <1>3 DEF ExecExit, ExecError
  <2>2. /\ At("instr") /\ call' = [call EXCEPT !.phase = "idle", !.result = result]
        /\ history'.executed = Up(history.executed)
        /\ history'.timed = history.timed
    BY <2>1, Before DEF Ends, Histories
  <2>3. history' \in Histories
    BY <2>1, Before, UpType DEF Ends, Histories
  <2>4. call' \in Calls
    BY <2>2, Before DEF Calls, Phases, Results
  <2>5. CallInv'
    BY <2>2, Before, SysTickAssumption
       DEF CallInv, LimitExact, At, Up, Calls, Histories
  <2>6. PendingTickIsDue' /\ PeriodExact'
    BY <2>1, Before DEF Ends, PendingTickIsDue, PeriodExact, Histories
  <2> QED
    BY <2>1, <2>3, <2>4, <2>5, <2>6, Before, Establish DEF Ends
<1> QED
  BY <1>1, <1>2, <1>3

\* SysTick::Step.
LEMMA TimerStepInv ==
  TimerInv /\ (TimerStopped \/ TimerCountsDown \/ TimerExpires) => TimerInv'
<1> SUFFICES ASSUME TimerInv, TimerStopped \/ TimerCountsDown \/ TimerExpires
             PROVE  TimerInv'
  OBVIOUS
<1>1. /\ At("tick") /\ call' = [call EXCEPT !.phase = "count"]
      /\ history'.executed = Up(history.executed)
      /\ history'.timed = Up(history.timed)
  BY Before DEF TimerStopped, TimerCountsDown, TimerExpires, Timed, Histories, Goto
<1>2. call' \in Calls
  BY <1>1, Before DEF Calls, Phases
<1>3. CallInv'
  BY <1>1, Before, SysTickAssumption
     DEF CallInv, LimitExact, At, Up, Calls, Histories
<1>4. Timed(history) \in Histories
  BY Before, UpType DEF Timed, Histories
<1>5. CASE TimerStopped
  <2>1. history' \in Histories /\ history'.due = history.due
        /\ history'.load = history.load /\ history'.steps = history.steps
    BY <1>4, <1>5, Before DEF TimerStopped, Timed, Histories
  <2>2. PendingTickIsDue' /\ PeriodExact'
    BY <1>5, <2>1, Before DEF TimerStopped, PendingTickIsDue, PeriodExact
  <2> QED
    BY <1>2, <1>3, <1>5, <2>1, <2>2, Before, Establish DEF TimerStopped
<1>6. CASE TimerCountsDown
  <2>1. cvr' \in 0 .. MaxReload /\ cvr > 1 /\ cvr' = cvr - 1
    BY <1>6, Before, SysTickAssumption DEF TimerCountsDown, Expires
  <2>2. history' \in Histories /\ history'.due = history.due
        /\ history'.load = history.load /\ history'.steps = history.steps + 1
    <3>1. Timed(history).due = history.due /\ Timed(history).load = history.load
          /\ Timed(history).steps = history.steps
      BY Before DEF Timed, Histories
    <3>2. history' = [Timed(history) EXCEPT !.steps = Timed(history).steps + 1]
      BY <1>6 DEF TimerCountsDown
    <3> QED
      BY <1>4, <3>1, <3>2 DEF Histories
  <2>3. PeriodExact'
    BY <2>1, <2>2, Before DEF PeriodExact, Histories
  <2>4. PendingTickIsDue'
    BY <1>6, <2>2, Before DEF TimerCountsDown, PendingTickIsDue
  <2> QED
    BY <1>2, <1>3, <1>6, <2>1, <2>2, <2>3, <2>4, Before, Establish
       DEF TimerCountsDown
<1>7. CASE TimerExpires
  <2>1. /\ history' \in Histories /\ history'.load = rvr /\ history'.steps = 0
        /\ history'.due = (IF csr.tickint = 1 THEN 1 ELSE history.due)
    BY <1>4, <1>7, Before DEF TimerExpires, Timed, Histories, Bit
  <2>2. PeriodExact'
    BY <1>7, <2>1, Before DEF TimerExpires, PeriodExact
  <2>3. csr' \in Csr
    BY <1>7, Before DEF TimerExpires, Csr, Bit
  <2>4. /\ exc' \in TickStates /\ Counted(exc')
        /\ SysTick \in exc'.pending <=> SysTick \in exc.pending \/ csr.tickint = 1
    BY <1>7, Before, TickOperations DEF TimerExpires, TickInterrupt
  <2>5. PendingTickIsDue'
    BY <2>1, <2>4, Before DEF PendingTickIsDue
  <2> QED
    BY <1>2, <1>3, <1>7, <2>1, <2>2, <2>3, <2>4, <2>5, Before, Establish
       DEF TimerExpires
<1> QED
  BY <1>5, <1>6, <1>7

\* The count of instructions and the host.
LEMMA HostInv == TimerInv /\ (CountInstr \/ HostExec \/ HostReset) => TimerInv'
<1> SUFFICES ASSUME TimerInv, CountInstr \/ HostExec \/ HostReset
             PROVE  TimerInv'
  OBVIOUS
<1>1. CASE CountInstr
  <2> DEFINE n == call.count + 1
  <2>1. /\ At("count") /\ UNCHANGED history
        /\ call' = [call EXCEPT !.count = Up(call.count),
             !.phase  = IF LimitReached(n) THEN "idle" ELSE "check",
             !.result = IF LimitReached(n) THEN "limit" ELSE call.result]
    BY <1>1, Before DEF CountInstr, Calls
  <2>2. call' \in Calls
    <3>1. Up(call.count) \in 0 .. MaxCount + 1
      BY Before, UpType DEF Calls
    <3> QED
      BY <2>1, <3>1, Before DEF Calls, Phases, Results
  <2>3. CallInv'
    <3>1. CASE LimitReached(n)
      BY <2>1, <3>1, Before, SysTickAssumption
         DEF CallInv, LimitExact, LimitReached, At, Up, Calls, Histories
    <3>2. CASE ~LimitReached(n)
      BY <2>1, <3>2, Before, SysTickAssumption
         DEF CallInv, LimitExact, LimitReached, At, Up, Calls, Histories
    <3> QED
      BY <3>1, <3>2
  <2>4. PendingTickIsDue' /\ PeriodExact'
    BY <1>1, Before DEF CountInstr, PendingTickIsDue, PeriodExact
  <2> QED
    BY <1>1, <2>2, <2>3, <2>4, Before, Establish DEF CountInstr
<1>2. CASE HostExec
  <2>1. PICK limit \in Limits :
          call' = [phase |-> "check", limit |-> limit, count |-> 0, result |-> "none"]
    BY <1>2 DEF HostExec
  <2>2. history' = [history EXCEPT !.executed = 0, !.timed = 0]
    BY <1>2 DEF HostExec
  <2>3. history' \in Histories
    <3>1. history \in Histories
      BY Before
    <3>2. 0 \in 0 .. MaxCount + 1
      BY SysTickAssumption
    <3> QED
      BY <2>2, <3>1, <3>2 DEF Histories
  <2>4. call' \in Calls
    BY <2>1, SysTickAssumption DEF Calls, Phases, Results
  <2>5. CallInv'
    BY <2>1, <2>2, Before, SysTickAssumption
       DEF CallInv, LimitExact, At, Histories
  <2>6. PendingTickIsDue' /\ PeriodExact'
    BY <1>2, <2>2, Before DEF HostExec, PendingTickIsDue, PeriodExact, Histories
  <2> QED
    BY <1>2, <2>3, <2>4, <2>5, <2>6, Before, Establish DEF HostExec
<1>3. CASE HostReset
  <2>1. exc' \in TickStates /\ Counted(exc') /\ SysTick \notin exc'.pending
    BY <1>3 DEF HostReset, InitExceptionStates, TickStates, Counted
  <2>2. history' \in Histories /\ history' = [history EXCEPT !.due = 0]
    BY <1>3, Before DEF HostReset, Histories, Bit
  <2>3. CallInv'
    BY <1>3, <2>2, Before DEF HostReset, CallInv, LimitExact, At, Histories
  <2>4. PendingTickIsDue' /\ PeriodExact'
    BY <1>3, <2>1, <2>2, Before
       DEF HostReset, PendingTickIsDue, PeriodExact, Histories
  <2> QED
    BY <1>3, <2>1, <2>2, <2>3, <2>4, Before, Establish DEF HostReset
<1> QED
  BY <1>1, <1>2, <1>3

LEMMA NextTimerInv == TimerInv /\ [Next]_vars => TimerInv'
<1>1. TimerInv /\ UNCHANGED vars => TimerInv'
  BY DEF vars, TimerInv, TimerTypeOK, Counted, PendingTickIsDue, PeriodExact,
         CallInv, LimitExact, At
<1> QED
  BY <1>1, CheckInv, AccessInv, OtherInv, TimerStepInv, HostInv
     DEF Next, ExecLoop, Step

LEMMA AlwaysTimerInv == Spec => []TimerInv
  BY InitTimerInv, NextTimerInv, PTL DEF Spec

------------------------------------------------------------------------------
(* The theorems *)

\* The registers of the timer, the locals of Exec and the exception states
\* keep their types, whatever firmware stores and whatever limits are passed.
THEOREM TimerTypes == Spec => []TimerTypeOK
<1>1. TimerInv => TimerTypeOK
  BY DEF TimerInv
<1> QED
  BY <1>1, AlwaysTimerInv, PTL

\* SysTick::Step counts the loaded value exactly, for every reload value.
THEOREM PeriodCorrect == Spec => []PeriodExact
<1>1. TimerInv => PeriodExact
  BY DEF TimerInv
<1> QED
  BY <1>1, AlwaysTimerInv, PTL

\* SysTick is pending exactly when the timer has expired with TICKINT since
\* the handler was last entered.
THEOREM PendingTickCorrect == Spec => []PendingTickIsDue
<1>1. TimerInv => PendingTickIsDue
  BY DEF TimerInv
<1> QED
  BY <1>1, AlwaysTimerInv, PTL

\* Exec executes as many instructions as its limit says, and times each.
THEOREM LimitCorrect == Spec => []LimitExact
<1>1. TimerInv => LimitExact
  BY DEF TimerInv, CallInv
<1> QED
  BY <1>1, AlwaysTimerInv, PTL

------------------------------------------------------------------------------
(* The refinement *)

LEMMA InitTimer == Init => Timer!TimerInit
  BY DEF Init, Timer!TimerInit, InitExceptionStates

\* Every step of the loop is a step of the periodic timer or leaves it alone.
LEMMA NextTimer ==
  ASSUME TimerInv, [Next]_vars
  PROVE  [Timer!TimerNext]_(Timer!timerVars)
<1> USE DEF Timer!timerVars
<1>1. CASE UNCHANGED vars \/ TakeNothing \/ ExecOther \/ ExecReturn \/ ExecExit
           \/ ExecError \/ TimerStopped \/ CountInstr \/ HostExec
  BY <1>1
     DEF vars, TakeNothing, ExecOther, ExecReturn, ClearActive, ExecExit,
         ExecError, Ends, TimerStopped, CountInstr, HostExec, TimerInv, TimerTypeOK
<1>2. CASE TakeTick
  BY <1>2 DEF TakeTick, SetActive, ClearPending, Timer!TimerNext, Timer!Serve
<1>3. CASE HostReset
  BY <1>3 DEF HostReset, InitExceptionStates, Timer!TimerNext, Timer!Serve
<1>4. CASE ExecReadCsr
  BY <1>4 DEF ExecReadCsr, ReadCsr, TimerInv, TimerTypeOK, Csr
<1>5. CASE ExecWriteCsr
  <2>1. PICK part \in Parts, enable \in Bit, tickint \in Bit :
          WriteCsr(part, enable, tickint)
    BY <1>5 DEF ExecWriteCsr
  <2> DEFINE on == IF part \in {"word", "low"} THEN enable ELSE 0
  <2>2. on \in Bit /\ csr'.enable = on /\ UNCHANGED <<exc, rvr>>
    BY <2>1 DEF WriteCsr, Bit
  <2>3. csr.enable \in Bit
    BY DEF TimerInv, TimerTypeOK, Csr
  <2>4. CASE Starts(on)
    <3>1. cvr' = rvr /\ csr.enable = 0 /\ on = 1
      BY <2>1, <2>4 DEF WriteCsr, Starts
    <3> QED
      BY <2>2, <3>1 DEF Timer!TimerNext, Timer!Start, Timer!Period
  <2>5. CASE ~Starts(on)
    <3>1. cvr' = cvr
      BY <2>1, <2>5 DEF WriteCsr
    <3>2. CASE on = 0
      BY <2>2, <3>1, <3>2 DEF Timer!TimerNext, Timer!Stop
    <3>3. CASE on = 1
      BY <2>2, <2>3, <2>5, <3>1, <3>3 DEF Starts, Bit
    <3> QED
      BY <2>2, <3>2, <3>3 DEF Bit
  <2> QED
    BY <2>4, <2>5
<1>6. CASE ExecWriteRvr
  BY <1>6 DEF ExecWriteRvr, WriteRvr, Timer!TimerNext, Timer!SetReload
<1>7. CASE ExecWriteCvr
  BY <1>7 DEF ExecWriteCvr, WriteCvr, Timer!TimerNext, Timer!Clear
<1>8. CASE TimerCountsDown
  <2>1. cvr > 1 /\ cvr' = cvr - 1 /\ cvr \in Nat /\ UNCHANGED <<exc, csr, rvr>>
    BY <1>8 DEF TimerCountsDown, Expires, TimerInv, TimerTypeOK
  <2> QED
    BY <1>8, <2>1 DEF TimerCountsDown, Timer!TimerNext, Timer!Clock
<1>9. CASE TimerExpires
  <2>1. /\ cvr \in 0 .. 1 /\ cvr' = rvr /\ rvr' = rvr
        /\ csr.enable = 1 /\ csr'.enable = 1
    BY <1>9 DEF TimerExpires, Expires, TimerInv, TimerTypeOK, Csr
  <2>2. SysTick \in exc.pending => SysTick \in exc'.pending
    BY <1>9 DEF TimerExpires, TickInterrupt, SetPending
  <2>3. \/ (SysTick \in exc'.pending) = (SysTick \in exc.pending)
        \/ (SysTick \in exc'.pending) = TRUE
    BY <2>2
  <2>4. (IF cvr = 0 THEN 1 ELSE cvr) = 1
    BY <2>1
  <2>5. (IF cvr = 0 THEN 1 ELSE cvr)' = Timer!Period(rvr)
    BY <2>1 DEF Timer!Period
  <2>6. UNCHANGED <<csr.enable = 1, rvr>>
    BY <2>1
  <2>7. ~((IF cvr = 0 THEN 1 ELSE cvr) > 1)
    BY <2>4
  <2>8. Timer!Clock
    BY <2>1, <2>3, <2>5, <2>6, <2>7 DEF Timer!Clock
  <2> QED
    BY <2>8 DEF Timer!TimerNext
<1> QED
  BY <1>1, <1>2, <1>3, <1>4, <1>5, <1>6, <1>7, <1>8, <1>9
     DEF Next, ExecLoop, Step

\* The timer in the loop, with its host, its limits and firmware's accesses,
\* implements the periodic timer.
THEOREM ImplementsPeriodicTimer == Spec => IsPeriodicTimer
<1>1. TimerInv /\ [Next]_vars => [Timer!TimerNext]_(Timer!timerVars)
  BY NextTimer
<1> QED
  BY <1>1, InitTimer, AlwaysTimerInv, PTL
     DEF Spec, IsPeriodicTimer, Timer!TimerSpec

------------------------------------------------------------------------------
(* COUNTFLAG *)

\* COUNTFLAG remembers the wraps that no access to CSR has seen.
FlagIsWrap == csr.countflag = history.wrapped

\* An access to CSR clears COUNTFLAG and the memory of wraps, an expiry sets
\* both, and nothing else changes either.
LEMMA NextFlagIsWrap == TimerInv /\ FlagIsWrap /\ [Next]_vars => FlagIsWrap'
<1> SUFFICES ASSUME TimerInv, FlagIsWrap, [Next]_vars
             PROVE  FlagIsWrap'
  OBVIOUS
<1> USE Before DEF FlagIsWrap, Csr, Histories
<1>1. CASE UNCHANGED vars
  BY <1>1 DEF vars
<1>2. CASE TakeTick \/ TakeNothing \/ ExecOther \/ ExecWriteRvr \/ ExecWriteCvr
             \/ ExecReturn \/ ExecExit \/ ExecError
  BY <1>2 DEF TakeTick, TakeNothing, ExecOther, ExecWriteRvr, WriteRvr,
     ExecWriteCvr, WriteCvr, ExecReturn, ExecExit, ExecError, Ends
<1>3. CASE ExecReadCsr
  BY <1>3 DEF ExecReadCsr, ReadCsr
<1>4. CASE ExecWriteCsr
  BY <1>4 DEF ExecWriteCsr, WriteCsr
<1>5. CASE TimerStopped \/ TimerCountsDown
  BY <1>5 DEF TimerStopped, TimerCountsDown, Timed
<1>6. CASE TimerExpires
  BY <1>6 DEF TimerExpires, Timed
<1>7. CASE CountInstr \/ HostExec \/ HostReset
  BY <1>7 DEF CountInstr, HostExec, HostReset
<1> QED
  BY <1>1, <1>2, <1>3, <1>4, <1>5, <1>6, <1>7 DEF Next, ExecLoop, Step

\* Only a load of CSR fills the register that firmware polls with.
LEMMA OnlyLoadsFill ==
  TimerInv /\ [Next]_vars /\ reg = NoLoad /\ reg'.part = "word" => ExecReadCsr
<1> SUFFICES ASSUME [Next]_vars, reg = NoLoad, reg'.part = "word", ~ExecReadCsr
             PROVE  FALSE
  OBVIOUS
<1>1. reg' \in {reg, NoLoad}
  BY DEF vars, Next, ExecLoop, Step, TakeTick, TakeNothing, ExecOther,
     ExecWriteCsr, WriteCsr, ExecWriteRvr, WriteRvr, ExecWriteCvr, WriteCvr,
     ExecReturn, ExecExit, ExecError, Ends, TimerStopped, TimerCountsDown,
     TimerExpires, CountInstr, HostExec, HostReset
<1> QED
  BY <1>1 DEF NoLoad

\* SysTick::Step and the accesses to CSR keep COUNTFLAG such that firmware that
\* polls with word loads misses no wrap and sees none twice.
THEOREM PolledWrapsCorrect == Spec => PolledWrapsSeen
<1>1. Init => FlagIsWrap
  BY DEF Init, FlagIsWrap
<1>2. TimerInv /\ FlagIsWrap /\ [Next]_vars
        => [reg = NoLoad /\ reg'.part = "word"
              => reg'.countflag = history.wrapped]_vars
  <2> SUFFICES ASSUME TimerInv, FlagIsWrap, [Next]_vars,
                      reg = NoLoad, reg'.part = "word"
               PROVE  reg'.countflag = history.wrapped
    OBVIOUS
  <2>1. PICK part \in Parts : reg' = ExtractType(part)
    BY OnlyLoadsFill DEF ExecReadCsr, ReadCsr
  <2> QED
    BY <2>1 DEF ExtractType, FlagIsWrap
<1> QED
  BY <1>1, <1>2, NextFlagIsWrap, AlwaysTimerInv, PTL DEF Spec, PolledWrapsSeen
=============================================================================
