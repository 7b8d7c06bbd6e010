---------------------------------- MODULE Bus ----------------------------------
(***************************************************************************)
(* Bus (bus/bus.h): which accesses the participants refuse, and what a     *)
(* refused access leaves in the fault status registers.  Addresses count   *)
(* words here.  The participants are asked in the order flash, first RAM,  *)
(* second RAM, so that flash hides a RAM at the same address; a RAM that   *)
(* was not assigned (mem_rw_optional.h) is an empty set.  The memory-      *)
(* mapped registers lie outside Adr.                                       *)
(***************************************************************************)
EXTENDS ExceptionStates

CONSTANTS
  Words,             \* the number of words, where addresses wrap
  Flash, Ram1, Ram2  \* the addresses that each participant answers for

Adr == 0 .. Words - 1

ASSUME BusAssumption ==
  /\ Words \in Nat \ {0}
  /\ Flash \subseteq Adr /\ Ram1 \subseteq Adr /\ Ram2 \subseteq Adr

Readable(a) == a \in Flash \cup Ram1 \cup Ram2

Writable(a) == a \in (Ram1 \cup Ram2) \ Flash

\* Mutant: addresses do not wrap.
WordAtNoWrap(base, i) == base + i

\* The i-th word from base on.
WordAt(base, i) == (base + i) % Words

(***************************************************************************)
(* The fault status is a record of the exception states, the flags set in  *)
(* CFSR, and BFAR.  A BusExceptionType is named by the flag it sets.       *)
(***************************************************************************)
AccessKinds == {"IBUSERR", "PRECISERR", "IMPRECISERR", "UNSTKERR", "STKERR"}
BusFlags    == AccessKinds \cup {"BFARVALID"}
UsageFlags  == {"DIVBYZERO", "INVSTATE"}
Flags       == BusFlags \cup UsageFlags

\* Only the exception states change, only CFSR changes.
WithExc(x, exc)   == [exc |-> exc, cfsr |-> x.cfsr, bfar |-> x.bfar]
WithCfsr(x, cfsr) == [exc |-> x.exc, cfsr |-> cfsr, bfar |-> x.bfar]

\* Mutant: an imprecise entry of the switch is taken, BFAR is not written.
RaiseReadImprecise(x, kind, a) ==
  [exc  |-> SetPending(x.exc, BusFault),
   cfsr |-> x.cfsr \cup {kind}
              \cup (IF kind = "PRECISERR" THEN {"BFARVALID"} ELSE {}),
   bfar |-> x.bfar]

\* ReadOrRaise: BFAR is written for data and for instructions, and marked
\* valid for data only.
RaiseRead(x, kind, a) ==
  [exc  |-> SetPending(x.exc, BusFault),
   cfsr |-> x.cfsr \cup {kind}
              \cup (IF kind = "PRECISERR" THEN {"BFARVALID"} ELSE {}),
   bfar |-> IF kind \in {"PRECISERR", "IBUSERR"} THEN a ELSE x.bfar]

\* Mutant: a frame that does not fit is pushed without a fault.
RaiseWriteSilent(x, kind, a) ==
  IF kind = "UNSTKERR" THEN x
  ELSE [exc  |-> SetPending(x.exc, BusFault),
        cfsr |-> x.cfsr \cup {kind, "BFARVALID"},
        bfar |-> a]

\* WriteOrRaise: BFAR is written and marked valid for every kind.
RaiseWrite(x, kind, a) ==
  [exc  |-> SetPending(x.exc, BusFault),
   cfsr |-> x.cfsr \cup {kind, "BFARVALID"},
   bfar |-> a]

\* Accesses to n words from base on, in order: each refused one raises, and
\* the registers are left as by the last.
RefusedReads(base, n)  == {i \in 0 .. n - 1 : ~Readable(WordAt(base, i))}
RefusedWrites(base, n) == {i \in 0 .. n - 1 : ~Writable(WordAt(base, i))}

LastOf(base, S) == WordAt(base, CHOOSE i \in S : \A j \in S : j <= i)

ReadOrRaise(x, kind, base, n) ==
  LET S == RefusedReads(base, n)
  IN  IF S = {} THEN x ELSE RaiseRead(x, kind, LastOf(base, S))

WriteOrRaise(x, kind, base, n) ==
  LET S == RefusedWrites(base, n)
  IN  IF S = {} THEN x ELSE RaiseWrite(x, kind, LastOf(base, S))

\* GenerateIntegerZeroDivide and IsThumbModeOrRaise.
RaiseUsage(x, flag) ==
  [exc |-> SetPending(x.exc, UsageFault), cfsr |-> x.cfsr \cup {flag},
   bfar |-> x.bfar]

------------------------------------------------------------------------------
(* Stores to the system control block (peripherals/sys_ctrl_block.h) *)

\* The flags in the part of CFSR that a store covers: BFSR is its second
\* byte, UFSR its upper half.
Covers(part) == CASE part = "BFSR" -> BusFlags
                  [] part = "UFSR" -> UsageFlags
                  [] part = "CFSR" -> Flags

\* Mutant: CFSR is read before it is written, as CCR and BFAR are, and the
\* flags that the store does not cover are written back as ones.
WriteCfsrRmw(x, part, ones) ==
  WithCfsr(x, x.cfsr \ (ones \cup (x.cfsr \ Covers(part))))

\* A one clears its flag.  A store of less than a word has zeros elsewhere
\* (kUseReadModifyWrite is false).
WriteCfsr(x, part, ones) == WithCfsr(x, x.cfsr \ ones)

\* The write handler of BFAR stores the value into CFSR.
WriteBfar(x, ones) == WithCfsr(x, ones)
=============================================================================
