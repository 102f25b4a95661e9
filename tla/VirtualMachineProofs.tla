------------------------ MODULE VirtualMachineProofs ------------------------
(***************************************************************************)
(* Proofs about the thread level of the VM (module VirtualMachine), for    *)
(* every set of threads, codes, paths and every program body.              *)
(***************************************************************************)
EXTENDS VirtualMachine, SequenceTheorems, TLAPS

USE ConstantsAssumption DEF Stages

-----------------------------------------------------------------------------
(* Lemmas about the run() stack helpers.                                   *)

\* The instruction at the top of a thread's stack is an Op of its code.
LEMMA CurOpType ==
  ASSUME TypeOK, NEW t \in Threads, AtInstruction(t)
  PROVE  /\ Top(t) \in Frame
         /\ CurOp(t) \in Op
<1>1. stack[t] \in Seq(Frame) /\ stack[t] # << >>
  BY DEF TypeOK, AtInstruction
<1>2. Top(t) \in Frame
  BY <1>1, EmptySeq, ElementOfSeq DEF Top
<1>3. Top(t).pc \in 1 .. Len(Body[Top(t).code])
  BY <1>2 DEF AtInstruction, Frame
<1>4. QED
  BY <1>2, <1>3, ElementOfSeq DEF CurOp, Frame

\* Advancing the index of the top frame keeps the stack a stack of frames,
\* of the same length.
LEMMA AdvancedType ==
  ASSUME TypeOK, NEW t \in Threads, stack[t] # << >>
  PROVE  /\ Advanced(t) \in Seq(Frame)
         /\ Len(Advanced(t)) = Len(stack[t])
         /\ Advanced(t) # << >>
<1>1. stack[t] \in Seq(Frame)
  BY DEF TypeOK
<1>2. Len(stack[t]) \in 1 .. Len(stack[t])
  BY <1>1, EmptySeq
<1>3. stack[t][Len(stack[t])] \in Frame
  BY <1>1, <1>2, ElementOfSeq
<1>4. [code |-> stack[t][Len(stack[t])].code,
       pc |-> stack[t][Len(stack[t])].pc + 1] \in Frame
  BY <1>3 DEF Frame
<1>5. Advanced(t) \in Seq(Frame) /\ Len(Advanced(t)) = Len(stack[t])
  BY <1>1, <1>2, <1>4, ExceptSeq DEF Advanced
<1>6. QED
  BY <1>1, <1>5, EmptySeq

\* run_code(c) leaves a stack of frames.
LEMMA InvokedType ==
  ASSUME TypeOK, NEW t \in Threads, stack[t] # << >>, NEW c \in CodeIds
  PROVE  /\ Invoked(t, c) \in Seq(Frame)
         /\ Invoked(t, c) # << >>
<1>1. [code |-> c, pc |-> 1] \in Frame
  BY DEF Frame
<1>2. Advanced(t) \in Seq(Frame) /\ Advanced(t) # << >>
  BY AdvancedType
<1>3. Append(Advanced(t), [code |-> c, pc |-> 1]) \in Seq(Frame)
      /\ Append(Advanced(t), [code |-> c, pc |-> 1]) # << >>
  BY <1>1, <1>2, AppendProperties, EmptySeq
<1>4. QED
  BY <1>2, <1>3 DEF Invoked

-----------------------------------------------------------------------------
(* Type correctness.                                                       *)

\* The strengthening TypeOK needs: a thread inside a multi-step handler is
\* running with its frame on the stack (PhaseRunning), the child a
\* StartThread handler hands off is blocked on recv (ChildWaiting) and
\* belongs to that handler alone (ChildOwned).
PhaseRunning ==
  \A t \in Threads : phase[t] # "none" => stage[t] = "run" /\ stack[t] # << >>

ChildWaiting ==
  \A t \in Threads : phase[t] \in {"alloc", "send"} => stage[child[t]] = "recv"

ChildOwned ==
  \A t, u \in Threads :
    /\ t # u
    /\ phase[t] \in {"alloc", "send"}
    /\ phase[u] \in {"alloc", "send"}
    => child[t] # child[u]

Wellformed == PhaseRunning /\ ChildWaiting /\ ChildOwned

\* The steps that only move a thread along its stages.
LEMMA StageSteps ==
  ASSUME TypeOK, Wellformed, NEW t \in Threads,
         Remove(t) \/ Report(t) \/ StopAll(t) \/ AllocateThread(t) \/ Return
  PROVE  TypeOK' /\ Wellformed'
<1>1. CASE Remove(t)
  <2>1. TypeOK'
    BY <1>1 DEF Remove, TypeOK
  <2>2. PhaseRunning'
    BY <1>1 DEF Remove, Wellformed, PhaseRunning
  <2>3. ChildWaiting'
    BY <1>1 DEF Remove, Wellformed, ChildWaiting, TypeOK
  <2>4. ChildOwned'
    BY <1>1 DEF Remove, Wellformed, ChildOwned
  <2>5. QED
    BY <2>1, <2>2, <2>3, <2>4 DEF Wellformed
<1>2. CASE Report(t)
  <2>1. TypeOK'
    BY <1>2 DEF Report, TypeOK
  <2>2. PhaseRunning'
    BY <1>2 DEF Report, Wellformed, PhaseRunning
  <2>3. ChildWaiting'
    BY <1>2 DEF Report, Wellformed, ChildWaiting, TypeOK
  <2>4. ChildOwned'
    BY <1>2 DEF Report, Wellformed, ChildOwned
  <2>5. QED
    BY <2>1, <2>2, <2>3, <2>4 DEF Wellformed
<1>3. CASE StopAll(t)
  <2>1. TypeOK'
    BY <1>3 DEF StopAll, TypeOK
  <2>2. PhaseRunning'
    BY <1>3 DEF StopAll, Wellformed, PhaseRunning
  <2>3. ChildWaiting'
    BY <1>3 DEF StopAll, Wellformed, ChildWaiting, TypeOK
  <2>4. ChildOwned'
    BY <1>3 DEF StopAll, Wellformed, ChildOwned
  <2>5. QED
    BY <2>1, <2>2, <2>3, <2>4 DEF Wellformed
<1>4. CASE AllocateThread(t)
  <2>1. TypeOK'
    BY <1>4 DEF AllocateThread, TypeOK
  <2>2. PhaseRunning'
    BY <1>4 DEF AllocateThread, Wellformed, PhaseRunning
  <2>3. ChildWaiting'
    BY <1>4 DEF AllocateThread, Wellformed, ChildWaiting, TypeOK
  <2>4. ChildOwned'
    BY <1>4 DEF AllocateThread, Wellformed, ChildOwned
  <2>5. QED
    BY <2>1, <2>2, <2>3, <2>4 DEF Wellformed
<1>5. CASE Return
  <2>1. TypeOK'
    BY <1>5 DEF Return, TypeOK
  <2>2. PhaseRunning'
    BY <1>5 DEF Return, Wellformed, PhaseRunning
  <2>3. ChildWaiting'
    BY <1>5 DEF Return, Wellformed, ChildWaiting, TypeOK
  <2>4. ChildOwned'
    BY <1>5 DEF Return, Wellformed, ChildOwned
  <2>5. QED
    BY <2>1, <2>2, <2>3, <2>4 DEF Wellformed
<1>6. QED
  BY <1>1, <1>2, <1>3, <1>4, <1>5

\* A handler that fails or finishes in one step, on the thread's own stack.
LEMMA OwnStackStep ==
  ASSUME TypeOK, Wellformed, NEW t \in Threads, stage[t] = "run",
         NEW s \in Seq(Frame), s # << >>,
         \/ /\ stack' = [stack EXCEPT ![t] = s]
            /\ UNCHANGED <<stage, outcome>>
         \/ Fail(t),
         phase[t] = "none", phase' = phase,
         UNCHANGED <<threadList, shouldStop, child, parsing, exitStatus, vmResult>>,
         executed' \subseteq Paths, runs' \in [Paths -> Nat]
  PROVE  TypeOK' /\ Wellformed'
<1>1. \A u \in Threads : phase[u] \in {"alloc", "send"} => child[u] # t
  BY DEF ChildWaiting, Wellformed
<1>2. TypeOK'
  <2>1. CASE stack' = [stack EXCEPT ![t] = s] /\ UNCHANGED <<stage, outcome>>
    BY <2>1 DEF TypeOK
  <2>2. CASE Fail(t)
    BY <2>2, EmptySeq DEF Fail, TypeOK
  <2>3. QED
    BY <2>1, <2>2
<1>3. PhaseRunning'
  <2>1. CASE stack' = [stack EXCEPT ![t] = s] /\ UNCHANGED <<stage, outcome>>
    BY <2>1 DEF PhaseRunning, Wellformed, TypeOK
  <2>2. CASE Fail(t)
    BY <2>2 DEF Fail, PhaseRunning, Wellformed, TypeOK
  <2>3. QED
    BY <2>1, <2>2
<1>4. ChildWaiting'
  <2>1. CASE stack' = [stack EXCEPT ![t] = s] /\ UNCHANGED <<stage, outcome>>
    BY <2>1 DEF ChildWaiting, Wellformed
  <2>2. CASE Fail(t)
    BY <1>1, <2>2 DEF Fail, ChildWaiting, Wellformed, TypeOK
  <2>3. QED
    BY <2>1, <2>2
<1>5. ChildOwned'
  BY DEF ChildOwned, Wellformed
<1>6. QED
  BY <1>2, <1>3, <1>4, <1>5 DEF Wellformed

LEMMA TypeWellformed == Spec => [](TypeOK /\ Wellformed)
<1>1. Init => TypeOK /\ Wellformed
  BY EmptySeq DEF Init, TypeOK, Wellformed, PhaseRunning, ChildWaiting, ChildOwned
<1>2. TypeOK /\ Wellformed /\ [Next]_vars => TypeOK' /\ Wellformed'
  <2> SUFFICES ASSUME TypeOK, Wellformed, [Next]_vars PROVE TypeOK' /\ Wellformed'
    OBVIOUS
  <2>1. CASE Start
    <3>1. << [code |-> Root, pc |-> 1] >> \in Seq(Frame)
      BY DEF Frame
    <3>2. phase[Main] = "none" /\ \A u \in Threads : phase[u] \in {"alloc", "send"} => child[u] # Main
      BY <2>1 DEF Start, Wellformed, PhaseRunning, ChildWaiting
    <3>3. TypeOK'
      BY <2>1, <3>1 DEF Start, TypeOK
    <3>4. Wellformed'
      BY <2>1, <3>2 DEF Start, TypeOK, Wellformed, PhaseRunning, ChildWaiting, ChildOwned
    <3>5. QED
      BY <3>3, <3>4
  <2>2. ASSUME NEW t \in Threads, Begin(t) PROVE TypeOK' /\ Wellformed'
    <3>1. phase[t] = "none" /\ \A u \in Threads : phase[u] \in {"alloc", "send"} => child[u] # t
      BY <2>2 DEF Begin, Wellformed, PhaseRunning, ChildWaiting
    <3>2. CASE shouldStop[t]
      <4>1. /\ stage' = [stage EXCEPT ![t] = "exiting"]
            /\ stack' = [stack EXCEPT ![t] = << >>]
            /\ outcome' = [outcome EXCEPT ![t] = "ok"]
            /\ UNCHANGED <<threadList, shouldStop, phase, child, parsing,
                           exitStatus, executed, runs, vmResult>>
        BY <2>2, <3>2 DEF Begin
      <4>2. TypeOK'
        BY <4>1, EmptySeq DEF TypeOK
      <4>3. PhaseRunning'
        BY <3>1, <4>1 DEF TypeOK, Wellformed, PhaseRunning
      <4>4. ChildWaiting'
        BY <3>1, <4>1 DEF TypeOK, Wellformed, ChildWaiting
      <4>5. ChildOwned'
        BY <4>1 DEF Wellformed, ChildOwned
      <4>6. QED
        BY <4>2, <4>3, <4>4, <4>5 DEF Wellformed
    <3>3. CASE ~shouldStop[t]
      <4>1. /\ stage' = [stage EXCEPT ![t] = "run"]
            /\ UNCHANGED <<stack, outcome, threadList, shouldStop, phase, child,
                           parsing, exitStatus, executed, runs, vmResult>>
        BY <2>2, <3>3 DEF Begin
      <4>2. TypeOK'
        BY <4>1 DEF TypeOK
      <4>3. PhaseRunning'
        BY <3>1, <4>1 DEF TypeOK, Wellformed, PhaseRunning
      <4>4. ChildWaiting'
        BY <3>1, <4>1 DEF TypeOK, Wellformed, ChildWaiting
      <4>5. ChildOwned'
        BY <4>1 DEF Wellformed, ChildOwned
      <4>6. QED
        BY <4>2, <4>3, <4>4, <4>5 DEF Wellformed
    <3>4. QED
      BY <3>2, <3>3
  <2>3. ASSUME NEW t \in Threads, Leave(t) PROVE TypeOK' /\ Wellformed'
    <3>1. stack[t] \in Seq(Frame) /\ Len(stack[t]) \in Nat
      BY DEF TypeOK
    <3>2. SubSeq(stack[t], 1, Len(stack[t]) - 1) \in Seq(Frame)
      BY <3>1, SubSeqProperties, ElementOfSeq
    <3>3. phase[t] = "none" /\ \A u \in Threads : phase[u] \in {"alloc", "send"} => child[u] # t
      BY <2>3 DEF Leave, Wellformed, ChildWaiting
    <3>4. /\ stack' = [stack EXCEPT ![t] = SubSeq(stack[t], 1, Len(stack[t]) - 1)]
          /\ \/ /\ stage' = [stage EXCEPT ![t] = "exiting"]
                /\ outcome' = [outcome EXCEPT ![t] = "ok"]
             \/ UNCHANGED <<stage, outcome>>
          /\ UNCHANGED <<threadList, shouldStop, phase, child, parsing,
                         exitStatus, executed, runs, vmResult>>
      BY <2>3 DEF Leave
    <3>5. TypeOK'
      BY <3>2, <3>4 DEF TypeOK
    <3>6. PhaseRunning'
      BY <3>3, <3>4 DEF TypeOK, Wellformed, PhaseRunning
    <3>7. ChildWaiting'
      BY <3>3, <3>4 DEF TypeOK, Wellformed, ChildWaiting
    <3>8. ChildOwned'
      BY <3>4 DEF Wellformed, ChildOwned
    <3>9. QED
      BY <3>5, <3>6, <3>7, <3>8 DEF Wellformed
  <2>4. ASSUME NEW t \in Threads,
               Remove(t) \/ Report(t) \/ StopAll(t) \/ AllocateThread(t) \/ Return
        PROVE TypeOK' /\ Wellformed'
    BY <2>4, StageSteps
  <2>5. ASSUME NEW t \in Threads, Instruction(t) PROVE TypeOK' /\ Wellformed'
    <3>1. stage[t] = "run" /\ phase[t] = "none" /\ stack[t] # << >>
      BY <2>5 DEF Instruction, AtInstruction
    <3>2. Advanced(t) \in Seq(Frame) /\ Advanced(t) # << >>
      BY <3>1, AdvancedType
    <3>3. /\ \/ /\ stack' = [stack EXCEPT ![t] = Advanced(t)]
                /\ UNCHANGED <<stage, outcome>>
             \/ Fail(t)
          /\ phase' = phase
          /\ UNCHANGED <<threadList, shouldStop, child, parsing, exitStatus, vmResult>>
          /\ executed' \subseteq Paths /\ runs' \in [Paths -> Nat]
      BY <2>5 DEF Instruction, TypeOK
    <3>4. QED
      BY <3>1, <3>2, <3>3, OwnStackStep
  <2>6. ASSUME NEW t \in Threads, Call(t) PROVE TypeOK' /\ Wellformed'
    <3>1. stage[t] = "run" /\ phase[t] = "none" /\ stack[t] # << >>
      BY <2>6 DEF Call, AtInstruction
    <3>2. CurOp(t).arg \in CodeIds
      BY <2>6, CurOpType DEF Call, Op
    <3>3. Invoked(t, CurOp(t).arg) \in Seq(Frame) /\ Invoked(t, CurOp(t).arg) # << >>
      BY <3>1, <3>2, InvokedType
    <3>4. /\ \/ /\ stack' = [stack EXCEPT ![t] = Invoked(t, CurOp(t).arg)]
                /\ UNCHANGED <<stage, outcome>>
             \/ Fail(t)
          /\ phase' = phase
          /\ UNCHANGED <<threadList, shouldStop, child, parsing, exitStatus, vmResult>>
          /\ executed' \subseteq Paths /\ runs' \in [Paths -> Nat]
      BY <2>6 DEF Call, TypeOK
    <3>5. QED
      BY <3>1, <3>3, <3>4, OwnStackStep
  <2>7. ASSUME NEW t \in Threads, RunFileLock(t) PROVE TypeOK' /\ Wellformed'
    <3> DEFINE p == CurOp(t).arg
    <3>1. stage[t] = "run" /\ phase[t] = "none" /\ stack[t] # << >>
      BY <2>7 DEF RunFileLock, AtInstruction
    <3>2. p \in Paths
      BY <2>7, CurOpType DEF RunFileLock, Op
    <3>3. Advanced(t) \in Seq(Frame) /\ Advanced(t) # << >>
      BY <3>1, AdvancedType
    <3>4. UNCHANGED <<threadList, shouldStop, child, exitStatus, runs, vmResult>>
      BY <2>7 DEF RunFileLock
    <3>5. CASE Fail(t) /\ UNCHANGED <<phase, parsing, executed>>
      BY <3>1, <3>3, <3>4, <3>5, OwnStackStep DEF TypeOK
    <3>6. CASE /\ stack' = [stack EXCEPT ![t] = Advanced(t)]
               /\ UNCHANGED <<stage, outcome, phase, parsing, executed>>
      BY <3>1, <3>3, <3>4, <3>6, OwnStackStep DEF TypeOK
    <3>7. CASE /\ executed' = executed \cup {p}
               /\ phase' = [phase EXCEPT ![t] = "parse"]
               /\ parsing' = [parsing EXCEPT ![t] = p]
               /\ UNCHANGED <<stage, stack, outcome>>
      <4>1. TypeOK'
        BY <3>1, <3>2, <3>4, <3>7 DEF TypeOK
      <4>2. PhaseRunning'
        BY <3>1, <3>4, <3>7 DEF TypeOK, Wellformed, PhaseRunning
      <4>3. ChildWaiting'
        BY <3>1, <3>4, <3>7 DEF TypeOK, Wellformed, ChildWaiting
      <4>4. ChildOwned'
        BY <3>1, <3>4, <3>7 DEF TypeOK, Wellformed, ChildOwned
      <4>5. QED
        BY <4>1, <4>2, <4>3, <4>4 DEF Wellformed
    <3>8. QED
      BY <2>7, <3>5, <3>6, <3>7 DEF RunFileLock
  <2>8. ASSUME NEW t \in Threads, RunFileParse(t) PROVE TypeOK' /\ Wellformed'
    <3> DEFINE p == parsing[t]
    <3>1. stack[t] # << >> /\ stage[t] = "run" /\ p \in Paths /\ phase[t] = "parse"
      BY <2>8 DEF RunFileParse, Wellformed, PhaseRunning, TypeOK
    <3>2. Invoked(t, FileCode[p]) \in Seq(Frame) /\ Invoked(t, FileCode[p]) # << >>
      BY <3>1, InvokedType
    <3>3. \A u \in Threads : phase[u] \in {"alloc", "send"} => child[u] # t
      BY <3>1 DEF Wellformed, ChildWaiting
    <3>4. /\ phase' = [phase EXCEPT ![t] = "none"]
          /\ parsing' = [parsing EXCEPT ![t] = NoPath]
          /\ UNCHANGED <<threadList, shouldStop, child, exitStatus, executed, vmResult>>
      BY <2>8 DEF RunFileParse
    <3>5. CASE Fail(t) /\ UNCHANGED runs
      <4>1. TypeOK'
        <5>1. \A u \in Threads : (parsing'[u] # NoPath) <=> (phase'[u] = "parse")
          BY <3>4 DEF TypeOK
        <5>2. \A u \in Threads : (child'[u] # NoThread) <=> (phase'[u] \in {"alloc", "send"})
          BY <3>1, <3>4 DEF TypeOK
        <5>3. QED
          BY <3>4, <3>5, <5>1, <5>2, EmptySeq DEF Fail, TypeOK
      <4>2. PhaseRunning'
        BY <3>4, <3>5 DEF Fail, TypeOK, Wellformed, PhaseRunning
      <4>3. ChildWaiting'
        BY <3>3, <3>4, <3>5 DEF Fail, TypeOK, Wellformed, ChildWaiting
      <4>4. ChildOwned'
        BY <3>1, <3>4 DEF TypeOK, Wellformed, ChildOwned
      <4>5. QED
        BY <4>1, <4>2, <4>3, <4>4 DEF Wellformed
    <3>6. CASE /\ stack' = [stack EXCEPT ![t] = Invoked(t, FileCode[p])]
               /\ runs' = IF shouldStop[t] THEN runs ELSE [runs EXCEPT ![p] = @ + 1]
               /\ UNCHANGED <<stage, outcome>>
      <4>1. runs' \in [Paths -> Nat]
        BY <3>1, <3>6 DEF TypeOK
      <4>2. TypeOK'
        <5>1. \A u \in Threads : (parsing'[u] # NoPath) <=> (phase'[u] = "parse")
          BY <3>4 DEF TypeOK
        <5>2. \A u \in Threads : (child'[u] # NoThread) <=> (phase'[u] \in {"alloc", "send"})
          BY <3>1, <3>4 DEF TypeOK
        <5>3. QED
          BY <3>2, <3>4, <3>6, <4>1, <5>1, <5>2 DEF TypeOK
      <4>3. PhaseRunning'
        BY <3>2, <3>4, <3>6 DEF TypeOK, Wellformed, PhaseRunning
      <4>4. ChildWaiting'
        BY <3>4, <3>6 DEF TypeOK, Wellformed, ChildWaiting
      <4>5. ChildOwned'
        BY <3>1, <3>4 DEF TypeOK, Wellformed, ChildOwned
      <4>6. QED
        BY <4>2, <4>3, <4>4, <4>5 DEF Wellformed
    <3>7. QED
      BY <2>8, <3>5, <3>6 DEF RunFileParse
  <2>9. ASSUME NEW t \in Threads, SpawnThread(t) PROVE TypeOK' /\ Wellformed'
    <3>1. CurOp(t).arg \in CodeIds
      BY <2>9, CurOpType DEF SpawnThread, Op
    <3>2. phase[t] = "none" /\ stage[t] = "run" /\ stack[t] # << >>
      BY <2>9 DEF SpawnThread, AtInstruction
    <3>3. UNCHANGED <<threadList, shouldStop, parsing, exitStatus, executed, runs, vmResult>>
      BY <2>9 DEF SpawnThread
    <3>4. CASE Fail(t) /\ UNCHANGED <<phase, child>>
      <4>1. << >> \in Seq(Frame) /\ << >> = << >>
        OBVIOUS
      <4>2. stack[t] \in Seq(Frame)
        BY DEF TypeOK
      <4>3. QED
        BY <3>2, <3>3, <3>4, <4>2, OwnStackStep DEF TypeOK
    <3>5. ASSUME NEW c \in Threads,
                 /\ stage[c] = "free"
                 /\ c # Main
                 /\ stage' = [stage EXCEPT ![c] = "recv"]
                 /\ stack' = [stack EXCEPT ![c] = << [code |-> CurOp(t).arg, pc |-> 1] >>]
                 /\ phase' = [phase EXCEPT ![t] = "alloc"]
                 /\ child' = [child EXCEPT ![t] = c]
                 /\ UNCHANGED outcome
          PROVE  TypeOK' /\ Wellformed'
      <4>1. c # t /\ phase[c] = "none"
        BY <3>2, <3>5 DEF Wellformed, PhaseRunning
      <4>2. \A u \in Threads : phase[u] \in {"alloc", "send"} => child[u] # c
        BY <3>5 DEF Wellformed, ChildWaiting
      <4>3. << [code |-> CurOp(t).arg, pc |-> 1] >> \in Seq(Frame)
        BY <3>1 DEF Frame
      <4>4. child[t] = NoThread
        BY <3>2 DEF TypeOK
      <4>5. TypeOK'
        <5>1. \A u \in Threads : (child'[u] # NoThread) <=> (phase'[u] \in {"alloc", "send"})
          BY <3>5, <4>4 DEF TypeOK
        <5>2. \A u \in Threads : (parsing'[u] # NoPath) <=> (phase'[u] = "parse")
          BY <3>2, <3>3, <3>5 DEF TypeOK
        <5>3. QED
          BY <3>3, <3>5, <4>3, <5>1, <5>2 DEF TypeOK
      <4>6. PhaseRunning'
        BY <3>2, <3>3, <3>5, <4>1 DEF TypeOK, Wellformed, PhaseRunning
      <4>7. ChildWaiting'
        BY <3>3, <3>5, <4>1, <4>2 DEF TypeOK, Wellformed, ChildWaiting
      <4>8. ChildOwned'
        BY <3>2, <3>5, <4>2 DEF TypeOK, Wellformed, ChildOwned
      <4>9. QED
        BY <4>5, <4>6, <4>7, <4>8 DEF Wellformed
    <3>6. QED
      BY <2>9, <3>4, <3>5 DEF SpawnThread
  <2>10. ASSUME NEW t \in Threads, SendThread(t) PROVE TypeOK' /\ Wellformed'
    <3> DEFINE c == child[t]
    <3>1. stack[t] # << >> /\ stage[t] = "run" /\ c \in Threads
          /\ stage[c] = "recv" /\ c # t /\ phase[c] = "none"
      BY <2>10 DEF SendThread, Wellformed, PhaseRunning, ChildWaiting, TypeOK
    <3>2. Advanced(t) \in Seq(Frame) /\ Advanced(t) # << >>
      BY <3>1, AdvancedType
    <3>3. \A u \in Threads : u # t /\ phase[u] \in {"alloc", "send"} => child[u] # c
      BY <2>10 DEF SendThread, Wellformed, ChildOwned
    <3>4. TypeOK'
      BY <2>10, <3>1, <3>2 DEF SendThread, TypeOK
    <3>5. PhaseRunning'
      BY <2>10, <3>1, <3>2 DEF SendThread, TypeOK, Wellformed, PhaseRunning
    <3>6. ChildWaiting'
      BY <2>10, <3>1, <3>3 DEF SendThread, TypeOK, Wellformed, ChildWaiting
    <3>7. ChildOwned'
      BY <2>10 DEF SendThread, TypeOK, Wellformed, ChildOwned
    <3>8. QED
      BY <3>4, <3>5, <3>6, <3>7 DEF Wellformed
  <2>11. CASE UNCHANGED vars
    BY <2>11 DEF vars, TypeOK, Wellformed, PhaseRunning, ChildWaiting, ChildOwned
  <2>12. QED
    BY <2>1, <2>2, <2>3, <2>4, <2>5, <2>6, <2>7, <2>8, <2>9, <2>10, <2>11
    DEF Next, Step
<1>3. QED
  BY <1>1, <1>2, PTL DEF Spec

\* Every reachable state is well typed: in particular a StartThread handler
\* has a child exactly while it is between spawn and send, and a
\* RunFileFast handler a path exactly while it parses.
THEOREM TypeCorrect == Spec => []TypeOK
BY TypeWellformed, PTL

-----------------------------------------------------------------------------
(* Safety.                                                                 *)

\* ListedWhileRunning needs: a StartThread handler that has come to the send
\* has already registered its child (allocate_thread before send).
ListedInv ==
  /\ ListedWhileRunning
  /\ \A t \in Threads : phase[t] = "send" => child[t] \in threadList

\* StoppedOnlyOnFailure needs: a thread that is about to call stop() has
\* been through error(), which set exit_status first.
StopInv ==
  /\ StoppedOnlyOnFailure
  /\ \A t \in Threads : stage[t] = "stop" => exitStatus = "err"

\* RunFileAtMostOnce needs: a path nobody has inserted into executed_files
\* has neither run nor a loader; a path being parsed has not run yet and
\* has exactly one loader, the thread that inserted it.
RunFileInv ==
  /\ RunFileAtMostOnce
  /\ \A p \in Paths \ executed :
       runs[p] = 0 /\ \A t \in Threads : parsing[t] # p
  /\ \A t \in Threads : parsing[t] \in Paths => runs[parsing[t]] = 0
  /\ \A t, u \in Threads : t # u /\ parsing[t] \in Paths => parsing[u] # parsing[t]


\* A thread runs only while it is in the ThreadList: the StartThread
\* hand-off registers a thread before the spawned OS thread leaves recv.
THEOREM ListedWhileRunningHolds == Spec => []ListedWhileRunning
<1>1. Init => ListedInv
  BY DEF Init, ListedInv, ListedWhileRunning
<1>2. TypeOK /\ Wellformed /\ ListedInv /\ [Next]_vars => ListedInv'
  <2> SUFFICES ASSUME TypeOK, Wellformed, ListedInv, [Next]_vars PROVE ListedInv'
    OBVIOUS
  <2>1. CASE Start
    BY <2>1 DEF Start, ListedInv, ListedWhileRunning, TypeOK, Wellformed, PhaseRunning, ChildWaiting, ChildOwned
  <2>2. CASE Return
    BY <2>2 DEF Return, ListedInv, ListedWhileRunning, TypeOK, Wellformed, PhaseRunning, ChildWaiting, ChildOwned
  <2>3. ASSUME NEW t \in Threads, Begin(t) PROVE ListedInv'
    BY <2>3 DEF Begin, Fail, ListedInv, ListedWhileRunning, TypeOK, Wellformed, PhaseRunning, ChildWaiting, ChildOwned
  <2>4. ASSUME NEW t \in Threads, Leave(t) PROVE ListedInv'
    BY <2>4 DEF Leave, Fail, ListedInv, ListedWhileRunning, TypeOK, Wellformed, PhaseRunning, ChildWaiting, ChildOwned
  <2>5. ASSUME NEW t \in Threads, Remove(t) PROVE ListedInv'
    BY <2>5 DEF Remove, Fail, ListedInv, ListedWhileRunning, TypeOK, Wellformed, PhaseRunning, ChildWaiting, ChildOwned
  <2>6. ASSUME NEW t \in Threads, Report(t) PROVE ListedInv'
    BY <2>6 DEF Report, Fail, ListedInv, ListedWhileRunning, TypeOK, Wellformed, PhaseRunning, ChildWaiting, ChildOwned
  <2>7. ASSUME NEW t \in Threads, StopAll(t) PROVE ListedInv'
    BY <2>7 DEF StopAll, Fail, ListedInv, ListedWhileRunning, TypeOK, Wellformed, PhaseRunning, ChildWaiting, ChildOwned
  <2>8. ASSUME NEW t \in Threads, Instruction(t) PROVE ListedInv'
    BY <2>8 DEF Instruction, Fail, ListedInv, ListedWhileRunning, TypeOK, Wellformed, PhaseRunning, ChildWaiting, ChildOwned
  <2>9. ASSUME NEW t \in Threads, Call(t) PROVE ListedInv'
    BY <2>9 DEF Call, Fail, ListedInv, ListedWhileRunning, TypeOK, Wellformed, PhaseRunning, ChildWaiting, ChildOwned
  <2>10. ASSUME NEW t \in Threads, SpawnThread(t) PROVE ListedInv'
    <3>1. phase[t] = "none"
      BY <2>10 DEF SpawnThread, AtInstruction
    <3>2. CASE UNCHANGED <<threadList, phase, child>> /\ stage' = [stage EXCEPT ![t] = "exiting"]
      BY <3>2 DEF ListedInv, ListedWhileRunning, TypeOK
    <3>3. ASSUME NEW c \in Threads,
                 /\ stage' = [stage EXCEPT ![c] = "recv"]
                 /\ phase' = [phase EXCEPT ![t] = "alloc"]
                 /\ child' = [child EXCEPT ![t] = c]
                 /\ UNCHANGED threadList
          PROVE  ListedInv'
      BY <3>3 DEF ListedInv, ListedWhileRunning, TypeOK
    <3>4. QED
      BY <2>10, <3>2, <3>3 DEF SpawnThread, Fail
  <2>11. ASSUME NEW t \in Threads, AllocateThread(t) PROVE ListedInv'
    BY <2>11 DEF AllocateThread, Fail, ListedInv, ListedWhileRunning, TypeOK, Wellformed, PhaseRunning, ChildWaiting, ChildOwned
  <2>12. ASSUME NEW t \in Threads, SendThread(t) PROVE ListedInv'
    BY <2>12 DEF SendThread, Fail, ListedInv, ListedWhileRunning, TypeOK, Wellformed, PhaseRunning, ChildWaiting, ChildOwned
  <2>13. ASSUME NEW t \in Threads, RunFileLock(t) PROVE ListedInv'
    BY <2>13 DEF RunFileLock, Fail, ListedInv, ListedWhileRunning, TypeOK, Wellformed, PhaseRunning, ChildWaiting, ChildOwned
  <2>14. ASSUME NEW t \in Threads, RunFileParse(t) PROVE ListedInv'
    BY <2>14 DEF RunFileParse, Fail, ListedInv, ListedWhileRunning, TypeOK, Wellformed, PhaseRunning, ChildWaiting, ChildOwned
  <2>15. CASE UNCHANGED vars
    BY <2>15 DEF vars, ListedInv, ListedWhileRunning
  <2>16. QED
    BY <2>1, <2>2, <2>3, <2>4, <2>5, <2>6, <2>7, <2>8, <2>9, <2>10, <2>11, <2>12, <2>13, <2>14, <2>15 DEF Next, Step
<1>3. QED
  BY <1>1, <1>2, TypeWellformed, PTL DEF Spec, ListedInv

\* should_stop is only ever set after exit_status has become Err: error()
\* runs before ThreadList::stop() in run_thread.
THEOREM StoppedOnlyOnFailureHolds == Spec => []StoppedOnlyOnFailure
<1>1. Init => StopInv
  BY DEF Init, StopInv, StoppedOnlyOnFailure
<1>2. TypeOK /\ Wellformed /\ StopInv /\ [Next]_vars => StopInv'
  <2> SUFFICES ASSUME TypeOK, Wellformed, StopInv, [Next]_vars PROVE StopInv'
    OBVIOUS
  <2>1. CASE Start
    BY <2>1 DEF Start, StopInv, StoppedOnlyOnFailure, TypeOK
  <2>2. CASE Return
    BY <2>2 DEF Return, StopInv, StoppedOnlyOnFailure, TypeOK
  <2>3. ASSUME NEW t \in Threads, Begin(t) PROVE StopInv'
    BY <2>3 DEF Begin, Fail, StopInv, StoppedOnlyOnFailure, TypeOK
  <2>4. ASSUME NEW t \in Threads, Leave(t) PROVE StopInv'
    BY <2>4 DEF Leave, Fail, StopInv, StoppedOnlyOnFailure, TypeOK
  <2>5. ASSUME NEW t \in Threads, Remove(t) PROVE StopInv'
    BY <2>5 DEF Remove, Fail, StopInv, StoppedOnlyOnFailure, TypeOK
  <2>6. ASSUME NEW t \in Threads, Report(t) PROVE StopInv'
    BY <2>6 DEF Report, Fail, StopInv, StoppedOnlyOnFailure, TypeOK
  <2>7. ASSUME NEW t \in Threads, StopAll(t) PROVE StopInv'
    BY <2>7 DEF StopAll, Fail, StopInv, StoppedOnlyOnFailure, TypeOK
  <2>8. ASSUME NEW t \in Threads, Instruction(t) PROVE StopInv'
    BY <2>8 DEF Instruction, Fail, StopInv, StoppedOnlyOnFailure, TypeOK
  <2>9. ASSUME NEW t \in Threads, Call(t) PROVE StopInv'
    BY <2>9 DEF Call, Fail, StopInv, StoppedOnlyOnFailure, TypeOK
  <2>10. ASSUME NEW t \in Threads, SpawnThread(t) PROVE StopInv'
    BY <2>10 DEF SpawnThread, Fail, StopInv, StoppedOnlyOnFailure, TypeOK
  <2>11. ASSUME NEW t \in Threads, AllocateThread(t) PROVE StopInv'
    BY <2>11 DEF AllocateThread, Fail, StopInv, StoppedOnlyOnFailure, TypeOK
  <2>12. ASSUME NEW t \in Threads, SendThread(t) PROVE StopInv'
    BY <2>12 DEF SendThread, Fail, StopInv, StoppedOnlyOnFailure, TypeOK
  <2>13. ASSUME NEW t \in Threads, RunFileLock(t) PROVE StopInv'
    BY <2>13 DEF RunFileLock, Fail, StopInv, StoppedOnlyOnFailure, TypeOK
  <2>14. ASSUME NEW t \in Threads, RunFileParse(t) PROVE StopInv'
    BY <2>14 DEF RunFileParse, Fail, StopInv, StoppedOnlyOnFailure, TypeOK
  <2>15. CASE UNCHANGED vars
    BY <2>15 DEF vars, StopInv, StoppedOnlyOnFailure
  <2>16. QED
    BY <2>1, <2>2, <2>3, <2>4, <2>5, <2>6, <2>7, <2>8, <2>9, <2>10, <2>11, <2>12, <2>13, <2>14, <2>15 DEF Next, Step
<1>3. QED
  BY <1>1, <1>2, TypeWellformed, PTL DEF Spec, StopInv

\* The code of a file runs at most once however many threads execute
\* RunFileFast on its path.
THEOREM RunFileAtMostOnceHolds == Spec => []RunFileAtMostOnce
<1>1. Init => RunFileInv
  BY DEF Init, RunFileInv, RunFileAtMostOnce
<1>2. TypeOK /\ Wellformed /\ RunFileInv /\ [Next]_vars => RunFileInv'
  <2> SUFFICES ASSUME TypeOK, Wellformed, RunFileInv, [Next]_vars PROVE RunFileInv'
    OBVIOUS
  <2>1. CASE Start
    BY <2>1 DEF Start, RunFileInv, RunFileAtMostOnce, TypeOK, Invoked
  <2>2. CASE Return
    BY <2>2 DEF Return, RunFileInv, RunFileAtMostOnce, TypeOK, Invoked
  <2>3. ASSUME NEW t \in Threads, Begin(t) PROVE RunFileInv'
    BY <2>3 DEF Begin, Fail, RunFileInv, RunFileAtMostOnce, TypeOK, Invoked
  <2>4. ASSUME NEW t \in Threads, Leave(t) PROVE RunFileInv'
    BY <2>4 DEF Leave, Fail, RunFileInv, RunFileAtMostOnce, TypeOK, Invoked
  <2>5. ASSUME NEW t \in Threads, Remove(t) PROVE RunFileInv'
    BY <2>5 DEF Remove, Fail, RunFileInv, RunFileAtMostOnce, TypeOK, Invoked
  <2>6. ASSUME NEW t \in Threads, Report(t) PROVE RunFileInv'
    BY <2>6 DEF Report, Fail, RunFileInv, RunFileAtMostOnce, TypeOK, Invoked
  <2>7. ASSUME NEW t \in Threads, StopAll(t) PROVE RunFileInv'
    BY <2>7 DEF StopAll, Fail, RunFileInv, RunFileAtMostOnce, TypeOK, Invoked
  <2>8. ASSUME NEW t \in Threads, Instruction(t) PROVE RunFileInv'
    BY <2>8 DEF Instruction, Fail, RunFileInv, RunFileAtMostOnce, TypeOK, Invoked
  <2>9. ASSUME NEW t \in Threads, Call(t) PROVE RunFileInv'
    BY <2>9 DEF Call, Fail, RunFileInv, RunFileAtMostOnce, TypeOK, Invoked
  <2>10. ASSUME NEW t \in Threads, SpawnThread(t) PROVE RunFileInv'
    BY <2>10 DEF SpawnThread, Fail, RunFileInv, RunFileAtMostOnce, TypeOK, Invoked
  <2>11. ASSUME NEW t \in Threads, AllocateThread(t) PROVE RunFileInv'
    BY <2>11 DEF AllocateThread, Fail, RunFileInv, RunFileAtMostOnce, TypeOK, Invoked
  <2>12. ASSUME NEW t \in Threads, SendThread(t) PROVE RunFileInv'
    BY <2>12 DEF SendThread, Fail, RunFileInv, RunFileAtMostOnce, TypeOK, Invoked
  <2>13. ASSUME NEW t \in Threads, RunFileLock(t) PROVE RunFileInv'
    <3> DEFINE p == CurOp(t).arg
    <3>1. p \in Paths /\ phase[t] = "none" /\ parsing[t] = NoPath
      BY <2>13, CurOpType DEF RunFileLock, AtInstruction, Op, TypeOK
    <3>2. UNCHANGED runs
      BY <2>13 DEF RunFileLock
    <3>3. CASE UNCHANGED <<parsing, executed>>
      BY <3>2, <3>3 DEF RunFileInv, RunFileAtMostOnce
    <3>4. CASE /\ p \notin executed
               /\ executed' = executed \cup {p}
               /\ parsing' = [parsing EXCEPT ![t] = p]
      BY <3>1, <3>2, <3>4 DEF RunFileInv, RunFileAtMostOnce, TypeOK
    <3>5. QED
      BY <2>13, <3>3, <3>4 DEF RunFileLock
  <2>14. ASSUME NEW t \in Threads, RunFileParse(t) PROVE RunFileInv'
    <3> DEFINE f == parsing[t]
    <3>1. f \in Paths /\ f \in executed
      BY <2>14 DEF RunFileParse, TypeOK, RunFileInv
    <3>2. \A u \in Threads : u # t => parsing[u] # f
      BY <3>1 DEF RunFileInv
    <3>3. /\ phase' = [phase EXCEPT ![t] = "none"]
          /\ parsing' = [parsing EXCEPT ![t] = NoPath]
          /\ UNCHANGED executed
          /\ \/ UNCHANGED runs
             \/ runs' = [runs EXCEPT ![f] = @ + 1]
      BY <2>14 DEF RunFileParse
    <3>4. runs[f] = 0
      BY <3>1 DEF RunFileInv
    <3>5. RunFileAtMostOnce'
      <4>1. CASE UNCHANGED runs
        BY <4>1 DEF RunFileInv, RunFileAtMostOnce
      <4>2. CASE runs' = [runs EXCEPT ![f] = @ + 1]
        <5>1. runs \in [Paths -> Nat] /\ \A q \in Paths : runs[q] <= 1
          BY DEF TypeOK, RunFileInv, RunFileAtMostOnce
        <5>2. \A q \in Paths : runs'[q] <= 1
          BY <3>1, <3>4, <4>2, <5>1
        <5>3. QED
          BY <5>2 DEF RunFileAtMostOnce
      <4>3. QED
        BY <3>3, <4>1, <4>2
    <3>6. (\A q \in Paths \ executed : runs[q] = 0 /\ \A u \in Threads : parsing[u] # q)'
      BY <3>1, <3>3 DEF RunFileInv, TypeOK
    <3>7. (\A u \in Threads : parsing[u] \in Paths => runs[parsing[u]] = 0)'
      BY <3>2, <3>3 DEF RunFileInv, TypeOK
    <3>8. (\A u, v \in Threads : u # v /\ parsing[u] \in Paths => parsing[v] # parsing[u])'
      BY <3>3 DEF RunFileInv, TypeOK
    <3>9. QED
      BY <3>5, <3>6, <3>7, <3>8 DEF RunFileInv
  <2>15. CASE UNCHANGED vars
    BY <2>15 DEF vars, RunFileInv, RunFileAtMostOnce
  <2>16. QED
    BY <2>1, <2>2, <2>3, <2>4, <2>5, <2>6, <2>7, <2>8, <2>9, <2>10, <2>11, <2>12, <2>13, <2>14, <2>15 DEF Next, Step
<1>3. QED
  BY <1>1, <1>2, TypeWellformed, PTL DEF Spec, RunFileInv

=============================================================================
