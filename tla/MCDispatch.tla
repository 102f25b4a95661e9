----------------------------- MODULE MCDispatch -----------------------------
(***************************************************************************)
(* Small compiled codes for run(), with 0-based branch targets as in the   *)
(* bytecode.  Scenario3 is scenario 3 of spec section 7; the others cover  *)
(* a branch to the next instruction, branches taken and not taken on set   *)
(* and unset registers, a forward Goto, a backward Goto loop, and a fatal  *)
(* error.                                                                  *)
(***************************************************************************)
EXTENDS Dispatch

CONSTANTS s1, s2, one, ninetynine, None

MCSlots == {s1, s2}
MCIntValues == {one, ninetynine}

Set(s, v) == [kind |-> "set", slot |-> s, val |-> v]
Ret(s) == [kind |-> "return", slot |-> s]
Goto(t) == [kind |-> "goto", target |-> t]
IfFalse(t, s) == [kind |-> "gotoIfFalse", target |-> t, slot |-> s]
IfTrue(t, s) == [kind |-> "gotoIfTrue", target |-> t, slot |-> s]
Ins == [kind |-> "ins"]

\* SetInteger s1, 1; SetFalse s2; GotoIfFalse 5, s2; SetInteger s1, 99;
\* Return s1: the spec expects 1.
Scenario3 ==
  << Set(s1, one), Set(s2, "false"), IfFalse(5, s2), Set(s1, ninetynine), Ret(s1) >>

\* The same with the branch aimed at the very next instruction.
NextTarget ==
  << Set(s1, one), Set(s2, "false"), IfFalse(3, s2), Set(s1, ninetynine), Ret(s1) >>

\* GotoIfTrue taken over a Return; GotoIfFalse on an unset register.
Branches ==
  << Set(s1, "true"), IfTrue(3, s1), Ret(s1), IfFalse(5, s2), Ret(s2), Ret(s1) >>

\* A not-taken branch, a forward Goto, two Returns (the last one wins).
Forward ==
  << IfTrue(2, s2), Set(s2, one), Goto(4), Set(s2, "false"), Ret(s2), Ins, Ret(s1) >>

\* A backward Goto around a handler that may fail.
Loop == << Ins, Goto(0) >>

MCPrograms == {Scenario3, NextTarget, Branches, Forward, Loop}

MCScenario3 == {Scenario3}

=============================================================================
