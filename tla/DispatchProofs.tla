---------------------------- MODULE DispatchProofs ---------------------------
(***************************************************************************)
(* Proofs about Dispatch: the loop of run() is well typed for every set of *)
(* codes, slots and values and every iteration bound.                      *)
(***************************************************************************)
EXTENDS Dispatch, TLAPS

USE DispatchAssumption

\* The instruction at the index of a running loop is an instruction.
LEMMA CurInstr ==
  ASSUME TypeOK, index < Len(code)
  PROVE  Cur \in Instr
<1>1. code \in Seq(Instr)
  BY DEF TypeOK
<1>2. index + 1 \in 1 .. Len(code)
  BY DEF TypeOK
<1>. QED
  BY <1>1, <1>2 DEF Cur

\* What the fields of an instruction are, by its kind.
LEMMA InstrFields ==
  ASSUME NEW i \in Instr
  PROVE  /\ i.kind \in {"ins", "set", "return", "goto", "gotoIfFalse", "gotoIfTrue"}
         /\ i.kind = "set" => i.slot \in Slots /\ i.val \in SetValues
         /\ i.kind = "return" => i.slot \in Slots
         /\ i.kind = "goto" => i.target \in Nat
         /\ i.kind \in {"gotoIfFalse", "gotoIfTrue"} => i.target \in Nat /\ i.slot \in Slots
BY DEF Instr

-----------------------------------------------------------------------------

\* Every state of run() is well typed: the index and the skip window are
\* natural numbers (or None), Return records a value, the registers hold
\* values, and the iteration count stays within its bound.
THEOREM TypeCorrect == Spec => []TypeOK
<1>1. Init => TypeOK
  BY DEF Init, TypeOK, Values
<1>2. TypeOK /\ [Next]_vars => TypeOK'
  <2> SUFFICES ASSUME TypeOK, [Next]_vars PROVE TypeOK'
    OBVIOUS
  <2>1. CASE Skip
    BY <2>1 DEF Skip, Looping, TypeOK
  <2>2. CASE Step
    <3>1. index < Len(code) /\ iterations' \in 0 .. MaxIterations
      BY <2>2 DEF Step, Dispatched, Looping, TypeOK
    <3>2. Cur \in Instr
      BY <3>1, CurInstr
    <3>3. code' = code
      BY <2>2 DEF Step
    <3>4. CASE ExecIns /\ skipUntil' = NoTarget
      BY <3>1, <3>3, <3>4 DEF ExecIns, TypeOK
    <3>5. CASE ExecSet /\ skipUntil' = NoTarget
      BY <3>1, <3>2, <3>3, <3>5, InstrFields DEF ExecSet, TypeOK, Values
    <3>6. CASE ExecReturn /\ skipUntil' = NoTarget
      BY <3>1, <3>2, <3>3, <3>6, InstrFields DEF ExecReturn, TypeOK
    <3>7. CASE ExecGoto /\ skipUntil' = NoTarget
      BY <3>1, <3>2, <3>3, <3>7, InstrFields DEF ExecGoto, TypeOK
    <3>8. CASE ExecBranch
      BY <3>1, <3>2, <3>3, <3>8, InstrFields DEF ExecBranch, TypeOK
    <3>. QED
      BY <2>2, <3>4, <3>5, <3>6, <3>7, <3>8 DEF Step
  <2>3. CASE Finish
    BY <2>3 DEF Finish, TypeOK
  <2>4. CASE UNCHANGED vars
    BY <2>4 DEF vars, TypeOK
  <2>. QED
    BY <2>1, <2>2, <2>3, <2>4 DEF Next
<1>. QED
  BY <1>1, <1>2, PTL DEF Spec

=============================================================================
