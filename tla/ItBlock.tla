--------------------------------- MODULE ItBlock -------------------------------
(***************************************************************************)
(* What an IT block promises to the instructions after it: the conditions  *)
(* it names are asked for one by one, each by the instruction it belongs   *)
(* to, and an instruction uses up one condition, whatever it does.         *)
(*                                                                         *)
(* Two kinds of instructions keep their condition: a table branch that is  *)
(* taken, for it leaves the IT state alone (binary_branch_instr.h), and an *)
(* instruction the executor has no case for.                               *)
(***************************************************************************)
EXTENDS Naturals, Sequences

VARIABLES
    owed,      \* the conditions of the instructions to come
    next,      \* the decoded instruction [kind, conds]: kind is "none",
               \* "keeps", "uses" or "it", which names the conditions conds
    retired    \* number of instructions executed

vars == <<owed, next, retired>>

Opposite(cond) == IF cond % 2 = 0 THEN cond + 1 ELSE cond - 1
Other(kind) == [kind |-> kind, conds |-> <<>>]

\* A program that was interrupted may resume inside a block.
Init == owed \in Seq(0 .. 15) /\ next = Other("none") /\ retired = 0

\* An IT instruction inside a block is refused.
Meet ==
    /\ next.kind = "none"
    /\ \/ next' \in {Other("keeps"), Other("uses")}
       \/ /\ owed = <<>>
          /\ next'.kind = "it"
          /\ Len(next'.conds) \in 1 .. 4
          /\ \A k \in DOMAIN next'.conds :
               next'.conds[k] \in {next'.conds[1], Opposite(next'.conds[1])}
    /\ UNCHANGED <<owed, retired>>

Retire ==
    /\ next.kind # "none"
    /\ next' = Other("none")
    /\ retired' = retired + 1
    /\ owed' = CASE next.kind = "keeps" -> owed
                 [] next.kind = "uses" -> IF owed = <<>> THEN <<>> ELSE Tail(owed)
                 [] next.kind = "it" -> next.conds

\* The emulator gives up.
Stop ==
    /\ next' = Other("none")
    /\ UNCHANGED <<owed, retired>>

Next == Meet \/ Retire \/ Stop
Spec == Init /\ [][Next]_vars
==============================================================================
