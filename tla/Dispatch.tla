------------------------------ MODULE Dispatch ------------------------------
(***************************************************************************)
(* The dispatch loop of VirtualMachine::run() (src/src/virtual_machine.rs) *)
(* for one compiled code on a thread whose should_stop was clear at entry: *)
(* index, skip_until and retval, the pre-increment, the skip window of     *)
(* GotoIfFalse/GotoIfTrue, Goto's index assignment, Return's recording,    *)
(* and the try! of every handler.  "set" stands for SetTrue, SetFalse and *)
(* SetInteger, "ins" for any other handler, which returns Ok or a fatal    *)
(* Err.  A register holds nothing ("unset"), the false singleton, the true *)
(* singleton or one of a few non-zero integers (IntValues), which is what  *)
(* the branches and Return tell apart.                                     *)
(***************************************************************************)
EXTENDS Naturals, Sequences

CONSTANTS
  Programs,       \* the compiled codes run() may be given
  Slots,          \* register slots
  IntValues,      \* the integer objects the program creates
  NoTarget,       \* skip_until = None
  MaxIterations   \* bound on the iterations of the while loop

VARIABLES
  code,        \* the CompiledCode being run (fixed for the call)
  index,       \* run(): index
  skipUntil,   \* run(): skip_until
  retval,      \* run(): retval; "unset" is None
  regs,        \* the thread's registers as the branches see them
  status,      \* "loop" while in the loop, then "ok" or "err"
  iterations   \* history: iterations of the while loop so far

vars == <<code, index, skipUntil, retval, regs, status, iterations>>

SetValues == {"false", "true"} \cup IntValues
Values == {"unset"} \cup SetValues

Instr ==
       [kind: {"ins"}]
  \cup [kind: {"set"}, slot: Slots, val: SetValues]
  \cup [kind: {"return"}, slot: Slots]
  \cup [kind: {"goto"}, target: Nat]
  \cup [kind: {"gotoIfFalse", "gotoIfTrue"}, target: Nat, slot: Slots]

\* Truthiness of a register: the false singleton is falsy, the true
\* singleton and non-zero integers are truthy; an unset register is not
\* an object at all.
Truthy(v) == v \notin {"unset", "false"}

ASSUME DispatchAssumption ==
  /\ Programs \subseteq Seq(Instr)
  /\ NoTarget \notin Nat
  /\ MaxIterations \in Nat

TypeOK ==
  /\ code \in Programs
  /\ index \in Nat
  /\ skipUntil \in Nat \cup {NoTarget}
  /\ retval \in Values
  /\ regs \in [Slots -> Values]
  /\ status \in {"loop", "ok", "err"}
  /\ iterations \in 0 .. MaxIterations

Cur == code[index + 1]

\* ins_goto_if_false / ins_goto_if_true: Some(go_to) when the register
\* matches (read_lock!(obj).truthy(); an unset register only matches the
\* former), None otherwise.
Matched(i) ==
  IF i.kind = "gotoIfTrue" THEN Truthy(regs[i.slot]) ELSE ~Truthy(regs[i.slot])

\* "while index < count", one iteration of it.
Looping ==
  /\ status = "loop"
  /\ index < Len(code)
  /\ iterations < MaxIterations
  /\ iterations' = iterations + 1

\* "if index < skip_until.unwrap() { continue; }": the index is not moved.
Skip ==
  /\ Looping
  /\ skipUntil # NoTarget
  /\ index < skipUntil
  /\ UNCHANGED <<code, index, skipUntil, retval, regs, status>>

-----------------------------------------------------------------------------
(* Mutants of the loop, each defined before the step it stands in for.     *)

\* ins_return reading the slot number rather than the register.
ExecReturnSlot ==
  /\ Cur.kind = "return"
  /\ index' = index + 1
  /\ retval' = Cur.slot
  /\ UNCHANGED <<regs, status>>

-----------------------------------------------------------------------------

\* An iteration that is not skipped: no window is open, or the index has
\* caught up with it.
Dispatched ==
  /\ Looping
  /\ skipUntil # NoTarget => index >= skipUntil

\* run!(...): the handler's Err leaves run() through try!.
ExecIns ==
  /\ Cur.kind = "ins"
  /\ index' = index + 1
  /\ status' \in {"loop", "err"}
  /\ UNCHANGED <<retval, regs>>

\* ins_set_true / ins_set_false / ins_set_integer: write the register.
ExecSet ==
  /\ Cur.kind = "set"
  /\ index' = index + 1
  /\ regs' = [regs EXCEPT ![Cur.slot] = Cur.val]
  /\ UNCHANGED <<retval, status>>

\* "retval = run!(self, ins_return, ...)": the loop goes on.
ExecReturn ==
  /\ Cur.kind = "return"
  /\ index' = index + 1
  /\ retval' = regs[Cur.slot]
  /\ UNCHANGED <<regs, status>>

\* "index = run!(self, ins_goto, ...)".
ExecGoto ==
  /\ Cur.kind = "goto"
  /\ index' = Cur.target
  /\ UNCHANGED <<retval, regs, status>>

\* "skip_until = run!(self, ins_goto_if_false/true, ...)": the index has
\* already been incremented; the branch only opens a skip window.
ExecBranch ==
  /\ Cur.kind \in {"gotoIfFalse", "gotoIfTrue"}
  /\ index' = index + 1
  /\ skipUntil' = IF Matched(Cur) THEN Cur.target ELSE NoTarget
  /\ UNCHANGED <<retval, regs, status>>

\* One dispatched iteration: the window check closes the window
\* ("skip_until = None"), "index += 1", then the handler; a branch assigns
\* skip_until anew.
Step ==
  /\ Dispatched
  /\ \/ /\ ExecIns \/ ExecSet \/ ExecReturn \/ ExecGoto
        /\ skipUntil' = NoTarget
     \/ ExecBranch
  /\ UNCHANGED code

\* "Ok(retval)" once index reaches count.
Finish ==
  /\ status = "loop"
  /\ index >= Len(code)
  /\ status' = "ok"
  /\ UNCHANGED <<code, index, skipUntil, retval, regs, iterations>>

Init ==
  /\ code \in Programs
  /\ index = 0
  /\ skipUntil = NoTarget
  /\ retval = "unset"
  /\ regs = [s \in Slots |-> "unset"]
  /\ status = "loop"
  /\ iterations = 0

Next == Skip \/ Step \/ Finish

Spec == Init /\ [][Next]_vars

\* run() is a loop on one OS thread that nothing else blocks.
FairSpec == Spec /\ WF_vars(Next)

-----------------------------------------------------------------------------
(* Properties.                                                             *)

\* Spec 4.4: run() leaves its loop, at the end of the code or at a fatal
\* error (for code without backward jumps).
Terminates == <>(status # "loop")

=============================================================================
