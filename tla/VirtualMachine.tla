--------------------------- MODULE VirtualMachine ---------------------------
(***************************************************************************)
(* The thread level of src/src/virtual_machine.rs: start(), run_thread(),  *)
(* the should_stop check of run(), run_code(), the StartThread hand-off    *)
(* through a channel, RunFileFast and its executed_files set, the          *)
(* fatal-error path error() + ThreadList::stop(), and the exit status.     *)
(*                                                                         *)
(* A compiled code is abstracted to a sequence of operations: an ordinary  *)
(* handler ("ins"), which either succeeds or returns a fatal Err depending *)
(* on data the model does not keep; a nested invocation through run_code  *)
(* ("call": Send or RunCode); StartThread ("spawn"); RunFileFast           *)
(* ("runfile").  Registers, values and branching are left to the module   *)
(* Dispatch.                                                               *)
(***************************************************************************)
EXTENDS Naturals, Sequences

CONSTANTS
  Threads,    \* the Thread objects a run can allocate
  Main,       \* the thread start() allocates for the root code
  CodeIds,    \* compiled code objects
  Root,       \* the compiled code handed to start()
  Paths,      \* paths named by RunFileFast string literals
  Body,       \* Body[c]: the operations of the instructions of code c
  FileCode,   \* FileCode[p]: the code bytecode_parser::parse_file(p) yields
  NoThread,   \* "no child thread" marker
  NoPath      \* "no file being loaded" marker

Op ==
  [kind: {"ins"}, arg: {NoPath}]
    \cup [kind: {"call", "spawn"}, arg: CodeIds]
    \cup [kind: {"runfile"}, arg: Paths]

ASSUME ConstantsAssumption ==
  /\ Main \in Threads
  /\ Root \in CodeIds
  /\ Body \in [CodeIds -> Seq(Op)]
  /\ FileCode \in [Paths -> CodeIds]
  /\ NoThread \notin Threads
  /\ NoPath \notin Paths

VARIABLES
  threadList,  \* VirtualMachine.threads: the ThreadList
  shouldStop,  \* Thread::should_stop of every thread
  stage,       \* where each OS thread is in start_thread()/run_thread()
  stack,       \* the active run() calls of a thread: code and next index
  outcome,     \* what the outermost run() returned: "ok" or "err"
  phase,       \* the step a multi-step handler of the thread is at
  child,       \* the thread a StartThread handler is handing off
  parsing,     \* the path a RunFileFast handler has claimed and parses
  exitStatus,  \* VirtualMachine.exit_status
  executed,    \* VirtualMachine.executed_files
  runs,        \* history: how often the code of each file started running
  vmResult     \* what start() returned, "none" before it returns

vars == <<threadList, shouldStop, stage, stack, outcome, phase, child,
          parsing, exitStatus, executed, runs, vmResult>>

Stages == {"free", "recv", "ready", "run", "exiting", "report", "stop", "done"}
Frame == [code: CodeIds, pc: Nat \ {0}]

TypeOK ==
  /\ threadList \subseteq Threads
  /\ shouldStop \in [Threads -> BOOLEAN]
  /\ stage \in [Threads -> Stages]
  /\ stack \in [Threads -> Seq(Frame)]
  /\ outcome \in [Threads -> {"ok", "err"}]
  /\ phase \in [Threads -> {"none", "alloc", "send", "parse"}]
  /\ child \in [Threads -> Threads \cup {NoThread}]
  /\ parsing \in [Threads -> Paths \cup {NoPath}]
  /\ \A t \in Threads : (child[t] # NoThread) <=> (phase[t] \in {"alloc", "send"})
  /\ \A t \in Threads : (parsing[t] # NoPath) <=> (phase[t] = "parse")
  /\ exitStatus \in {"ok", "err"}
  /\ executed \subseteq Paths
  /\ runs \in [Paths -> Nat]
  /\ vmResult \in {"none", "ok", "err"}

-----------------------------------------------------------------------------
(* Helpers on the run() stack of a thread.                                 *)

Top(t) == stack[t][Len(stack[t])]

CurOp(t) == Body[Top(t).code][Top(t).pc]

\* The thread is in run()'s loop with an instruction left to dispatch.
AtInstruction(t) ==
  /\ vmResult = "none"
  /\ stage[t] = "run"
  /\ phase[t] = "none"
  /\ stack[t] # << >>
  /\ Top(t).pc <= Len(Body[Top(t).code])

\* run(): "index += 1" before the handler runs.
Advanced(t) ==
  LET s == stack[t]
  IN  [s EXCEPT ![Len(s)] = [code |-> s[Len(s)].code, pc |-> s[Len(s)].pc + 1]]

\* run_code(c) from the current instruction: push the frame and enter run(),
\* which returns Ok(None) at once when should_stop is set.
Invoked(t, c) ==
  IF shouldStop[t] THEN Advanced(t)
  ELSE Append(Advanced(t), [code |-> c, pc |-> 1])

\* A handler returned Err: try! unwinds every run() of the thread.
Fail(t) ==
  /\ stack' = [stack EXCEPT ![t] = << >>]
  /\ stage' = [stage EXCEPT ![t] = "exiting"]
  /\ outcome' = [outcome EXCEPT ![t] = "err"]

-----------------------------------------------------------------------------
(* Mutants: plausible slips in the handlers below, each defined before the *)
(* action it stands in for.  The specification never uses them; a mutant  *)
(* run puts one in place of its original to show a property catches it.   *)

\* allocate_thread without "write_lock!(self.threads).add(...)".
AllocateThreadUnlisted(t) ==
  /\ vmResult = "none"
  /\ phase[t] = "alloc"
  /\ phase' = [phase EXCEPT ![t] = "send"]
  /\ UNCHANGED <<threadList, shouldStop, stage, stack, outcome, child, parsing,
                 exitStatus, executed, runs, vmResult>>

\* ins_run_file_fast that checks executed_files but never inserts the path.
RunFileLockNoInsert(t) ==
  /\ AtInstruction(t)
  /\ CurOp(t).kind = "runfile"
  /\ LET p == CurOp(t).arg IN
       \/ /\ Fail(t)
          /\ UNCHANGED <<phase, parsing>>
       \/ /\ p \in executed
          /\ stack' = [stack EXCEPT ![t] = Advanced(t)]
          /\ UNCHANGED <<stage, outcome, phase, parsing>>
       \/ /\ p \notin executed
          /\ phase' = [phase EXCEPT ![t] = "parse"]
          /\ parsing' = [parsing EXCEPT ![t] = p]
          /\ UNCHANGED <<stage, stack, outcome>>
  /\ UNCHANGED <<threadList, shouldStop, child, exitStatus, executed, runs,
                 vmResult>>

\* error() that reports the backtrace without setting exit_status.
ReportNoStatus(t) ==
  /\ vmResult = "none"
  /\ stage[t] = "report"
  /\ stage' = [stage EXCEPT ![t] = "stop"]
  /\ UNCHANGED <<threadList, shouldStop, stack, outcome, phase, child, parsing,
                 exitStatus, executed, runs, vmResult>>

-----------------------------------------------------------------------------
(* VM lifecycle.                                                           *)

\* start(): allocate_thread(code, None, true) registers the main thread.
Start ==
  /\ stage[Main] = "free"
  /\ threadList' = threadList \cup {Main}
  /\ stage' = [stage EXCEPT ![Main] = "ready"]
  /\ stack' = [stack EXCEPT ![Main] = << [code |-> Root, pc |-> 1] >>]
  /\ UNCHANGED <<shouldStop, outcome, phase, child, parsing, exitStatus,
                 executed, runs, vmResult>>

\* run_thread(): run() returns Ok(None) at once when should_stop is set.
Begin(t) ==
  /\ vmResult = "none"
  /\ stage[t] = "ready"
  /\ IF shouldStop[t]
       THEN /\ stage' = [stage EXCEPT ![t] = "exiting"]
            /\ stack' = [stack EXCEPT ![t] = << >>]
            /\ outcome' = [outcome EXCEPT ![t] = "ok"]
       ELSE /\ stage' = [stage EXCEPT ![t] = "run"]
            /\ UNCHANGED <<stack, outcome>>
  /\ UNCHANGED <<threadList, shouldStop, phase, child, parsing, exitStatus,
                 executed, runs, vmResult>>

\* run() leaves its loop at the end of the code; run_code pops the frame.
Leave(t) ==
  /\ vmResult = "none"
  /\ stage[t] = "run"
  /\ phase[t] = "none"
  /\ stack[t] # << >>
  /\ Top(t).pc > Len(Body[Top(t).code])
  /\ stack' = [stack EXCEPT ![t] = SubSeq(stack[t], 1, Len(stack[t]) - 1)]
  /\ IF Len(stack[t]) = 1
       THEN /\ stage' = [stage EXCEPT ![t] = "exiting"]
            /\ outcome' = [outcome EXCEPT ![t] = "ok"]
       ELSE UNCHANGED <<stage, outcome>>
  /\ UNCHANGED <<threadList, shouldStop, phase, child, parsing, exitStatus,
                 executed, runs, vmResult>>

\* run_thread(): remove the thread from the list and unpin it; on Ok the
\* value is stored and the thread is done, on Err error() follows.
Remove(t) ==
  /\ vmResult = "none"
  /\ stage[t] = "exiting"
  /\ threadList' = threadList \ {t}
  /\ stage' = [stage EXCEPT ![t] = IF outcome[t] = "ok" THEN "done" ELSE "report"]
  /\ UNCHANGED <<shouldStop, stack, outcome, phase, child, parsing, exitStatus,
                 executed, runs, vmResult>>

\* error(): exit_status becomes Err, then the backtrace goes to stderr.
Report(t) ==
  /\ vmResult = "none"
  /\ stage[t] = "report"
  /\ exitStatus' = "err"
  /\ stage' = [stage EXCEPT ![t] = "stop"]
  /\ UNCHANGED <<threadList, shouldStop, stack, outcome, phase, child, parsing,
                 executed, runs, vmResult>>

\* write_lock!(self.threads).stop(): flag every thread in the list.
StopAll(t) ==
  /\ vmResult = "none"
  /\ stage[t] = "stop"
  /\ shouldStop' = [u \in Threads |-> shouldStop[u] \/ u \in threadList]
  /\ stage' = [stage EXCEPT ![t] = "done"]
  /\ UNCHANGED <<threadList, stack, outcome, phase, child, parsing, exitStatus,
                 executed, runs, vmResult>>

\* start() reads exit_status once run_thread() of the main thread is over.
Return ==
  /\ vmResult = "none"
  /\ stage[Main] = "done"
  /\ vmResult' = exitStatus
  /\ UNCHANGED <<threadList, shouldStop, stage, stack, outcome, phase, child,
                 parsing, exitStatus, executed, runs>>

-----------------------------------------------------------------------------
(* Instruction handlers.                                                   *)

\* Any handler without thread-level effect: Ok, or a fatal Err.
Instruction(t) ==
  /\ AtInstruction(t)
  /\ CurOp(t).kind = "ins"
  /\ \/ /\ stack' = [stack EXCEPT ![t] = Advanced(t)]
        /\ UNCHANGED <<stage, outcome>>
     \/ Fail(t)
  /\ UNCHANGED <<threadList, shouldStop, phase, child, parsing, exitStatus,
                 executed, runs, vmResult>>

\* ins_send / ins_run_code: lookup, privacy and arity checks, then run_code.
Call(t) ==
  /\ AtInstruction(t)
  /\ CurOp(t).kind = "call"
  /\ \/ /\ stack' = [stack EXCEPT ![t] = Invoked(t, CurOp(t).arg)]
        /\ UNCHANGED <<stage, outcome>>
     \/ Fail(t)
  /\ UNCHANGED <<threadList, shouldStop, phase, child, parsing, exitStatus,
                 executed, runs, vmResult>>

\* ins_start_thread / start_thread(): thread::spawn; the new OS thread
\* blocks on chan_receiver.recv() holding a clone of the code.
SpawnThread(t) ==
  /\ AtInstruction(t)
  /\ CurOp(t).kind = "spawn"
  /\ \/ /\ Fail(t)
        /\ UNCHANGED <<phase, child>>
     \/ \E c \in Threads :
          /\ stage[c] = "free"
          /\ c # Main
          /\ stage' = [stage EXCEPT ![c] = "recv"]
          /\ stack' = [stack EXCEPT ![c] = << [code |-> CurOp(t).arg, pc |-> 1] >>]
          /\ phase' = [phase EXCEPT ![t] = "alloc"]
          /\ child' = [child EXCEPT ![t] = c]
          /\ UNCHANGED outcome
  /\ UNCHANGED <<threadList, shouldStop, parsing, exitStatus, executed, runs,
                 vmResult>>

\* start_thread(): allocate_thread(code, Some(handle), false) adds the new
\* Thread object to the list.
AllocateThread(t) ==
  /\ vmResult = "none"
  /\ phase[t] = "alloc"
  /\ threadList' = threadList \cup {child[t]}
  /\ phase' = [phase EXCEPT ![t] = "send"]
  /\ UNCHANGED <<shouldStop, stage, stack, outcome, child, parsing, exitStatus,
                 executed, runs, vmResult>>

\* start_thread(): chan_sender.send(thread_obj) releases the new thread;
\* ins_start_thread stores the thread object in its register.
SendThread(t) ==
  /\ vmResult = "none"
  /\ phase[t] = "send"
  /\ stage' = [stage EXCEPT ![child[t]] = "ready"]
  /\ stack' = [stack EXCEPT ![t] = Advanced(t)]
  /\ phase' = [phase EXCEPT ![t] = "none"]
  /\ child' = [child EXCEPT ![t] = NoThread]
  /\ UNCHANGED <<threadList, shouldStop, outcome, parsing, exitStatus,
                 executed, runs, vmResult>>

\* ins_run_file_fast: contains-then-insert under the executed_files lock.
RunFileLock(t) ==
  /\ AtInstruction(t)
  /\ CurOp(t).kind = "runfile"
  /\ LET p == CurOp(t).arg IN
       \/ /\ Fail(t)
          /\ UNCHANGED <<phase, parsing, executed>>
       \/ /\ p \in executed
          /\ stack' = [stack EXCEPT ![t] = Advanced(t)]
          /\ UNCHANGED <<stage, outcome, phase, parsing, executed>>
       \/ /\ p \notin executed
          /\ executed' = executed \cup {p}
          /\ phase' = [phase EXCEPT ![t] = "parse"]
          /\ parsing' = [parsing EXCEPT ![t] = p]
          /\ UNCHANGED <<stage, stack, outcome>>
  /\ UNCHANGED <<threadList, shouldStop, child, exitStatus, runs, vmResult>>

\* ins_run_file_fast: parse_file(path), then run_code(body, []) or a fatal
\* "Failed to parse" error.
RunFileParse(t) ==
  /\ vmResult = "none"
  /\ phase[t] = "parse"
  /\ LET p == parsing[t] IN
       \/ /\ Fail(t)
          /\ UNCHANGED runs
       \/ /\ stack' = [stack EXCEPT ![t] = Invoked(t, FileCode[p])]
          /\ runs' = IF shouldStop[t] THEN runs
                     ELSE [runs EXCEPT ![p] = @ + 1]
          /\ UNCHANGED <<stage, outcome>>
  /\ phase' = [phase EXCEPT ![t] = "none"]
  /\ parsing' = [parsing EXCEPT ![t] = NoPath]
  /\ UNCHANGED <<threadList, shouldStop, child, exitStatus, executed, vmResult>>

-----------------------------------------------------------------------------

Init ==
  /\ threadList = {}
  /\ shouldStop = [t \in Threads |-> FALSE]
  /\ stage = [t \in Threads |-> "free"]
  /\ stack = [t \in Threads |-> << >>]
  /\ outcome = [t \in Threads |-> "ok"]
  /\ phase = [t \in Threads |-> "none"]
  /\ child = [t \in Threads |-> NoThread]
  /\ parsing = [t \in Threads |-> NoPath]
  /\ exitStatus = "ok"
  /\ executed = {}
  /\ runs = [p \in Paths |-> 0]
  /\ vmResult = "none"

\* All steps of one OS thread.
Step(t) ==
  \/ Begin(t) \/ Leave(t) \/ Remove(t) \/ Report(t) \/ StopAll(t)
  \/ Instruction(t) \/ Call(t)
  \/ SpawnThread(t) \/ AllocateThread(t) \/ SendThread(t)
  \/ RunFileLock(t) \/ RunFileParse(t)

Next ==
  \/ Start
  \/ Return
  \/ \E t \in Threads : Step(t)

\* Every thread is an OS thread under a preemptive scheduler: a thread
\* that can take a step keeps being able to until it takes one.
Fairness ==
  /\ WF_vars(Start)
  /\ WF_vars(Return)
  /\ \A t \in Threads : WF_vars(Step(t))

Spec == Init /\ [][Next]_vars

FairSpec == Spec /\ Fairness

-----------------------------------------------------------------------------
(* Properties.                                                             *)

\* The StartThread hand-off: a thread never executes run() unless it is in
\* the ThreadList, so a stop() fan-out cannot miss a running thread
\* (start_thread allocates and registers the thread object before it sends
\* it to the spawned OS thread, which blocks on recv until then).
ListedWhileRunning ==
  \A t \in Threads : stage[t] \in {"ready", "run"} => t \in threadList

\* RunFileFast runs the code of a file at most once, however many threads
\* race on the same path (contains-then-insert under one write lock).
RunFileAtMostOnce ==
  \A p \in Paths : runs[p] <= 1

\* A thread is only ever told to stop after exit_status has become Err, so
\* a run whose threads were cut short never exits with success (error()
\* sets exit_status before run_thread calls ThreadList::stop()).
StoppedOnlyOnFailure ==
  \A t \in Threads : shouldStop[t] => exitStatus = "err"

\* Spec 4.12: the main thread waits for all non-main threads before start()
\* returns the exit status.
JoinBeforeExit ==
  vmResult # "none" => \A t \in Threads \ {Main} : stage[t] \in {"free", "done"}

\* Spec 5: when a thread raises a fatal error, the fan-out stops all peers:
\* once a failing thread has called stop(), every thread in the list is
\* flagged to stop.
StopReachesEveryThread ==
  (\E t \in Threads : stage[t] = "done" /\ outcome[t] = "err")
    => \A t \in threadList : shouldStop[t]

\* A step in which thread t dispatches an instruction to its handler.
Dispatches(t) ==
  /\ AtInstruction(t)
  /\ <<stack[t], phase[t]>> # <<stack'[t], phase'[t]>>

\* Spec 4.4 step 1 and 5: a thread whose should_stop is set executes no
\* further handler; its next dispatch-loop iteration returns Ok(None).
StoppedThreadIdle ==
  [][\A t \in Threads : shouldStop[t] => ~Dispatches(t)]_vars

=============================================================================
