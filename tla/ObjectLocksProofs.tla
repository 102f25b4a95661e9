-------------------------- MODULE ObjectLocksProofs -------------------------
(***************************************************************************)
(* Proofs about ObjectLocks, for every set of threads, objects and codes   *)
(* and every program: the model is well typed, however the threads       *)
(* interleave.                                                             *)
(* Whether a program deadlocks depends on the program (locks_self_write    *)
(* and locks_cross_send deadlock), so NoDeadlock is not a theorem.         *)
(***************************************************************************)
EXTENDS ObjectLocks, SequenceTheorems, TLAPS

USE ObjectLocksAssumption

\* A thread in run_thread has a frame; one that left it has none.
RunningHasFrame ==
  \A t \in Threads : status[t] = "run" <=> stack[t] # << >>

TypeInv == TypeOK /\ RunningHasFrame

-----------------------------------------------------------------------------
(* Lemmas about the instructions and the frames.                           *)

\* The fields an instruction carries, by its kind.
LEMMA InstructionFields ==
  ASSUME NEW i \in Instructions
  PROVE  /\ i.kind = "send" => i.recv \in Objects /\ i.name \in Names
         /\ i.kind = "defMethod" =>
              i.recv \in Objects /\ i.name \in Names /\ i.code \in Codes
         /\ i.kind = "runCode" => i.code \in Codes
BY DEF Instructions

\* The handler a frame with an instruction left is at is an instruction.
LEMMA InsType ==
  ASSUME NEW f \in Frame, AtIns(f)
  PROVE  Ins(f) \in Instructions
<1>1. Body[f.code] \in Seq(Instructions)
  BY DEF Frame
<1>2. f.pc + 1 \in 1 .. Len(Body[f.code])
  BY <1>1 DEF Frame, AtIns
<1>. QED
  BY <1>1, <1>2 DEF Ins

-----------------------------------------------------------------------------
(* Type correctness.                                                       *)

\* The top frame of a running thread is a frame.
LEMMA TopFrame ==
  ASSUME TypeInv, NEW t \in Threads, status[t] = "run"
  PROVE  /\ stack[t] \in Seq(Frame) /\ Len(stack[t]) \in Nat \ {0}
         /\ Top(t) \in Frame
BY DEF TypeInv, TypeOK, RunningHasFrame, Top

\* The handler a running thread is at, when it has one.
LEMMA CurrentIns ==
  ASSUME TypeInv, NEW t \in Threads, status[t] = "run", AtIns(Top(t))
  PROVE  Ins(Top(t)) \in Instructions
BY TopFrame, InsType

\* The frames Acquire and Done leave on top are frames.
LEMMA FrameUpdates ==
  ASSUME NEW f \in Frame
  PROVE  Granted(f) \in Frame /\ Returned(f) \in Frame
BY DEF Frame, Granted, Returned

\* A thread leaving run_thread keeps the invariant.
LEMMA Unwound ==
  ASSUME TypeInv, NEW t \in Threads, NEW x \in {"done", "err", "panic"},
         stack' = [stack EXCEPT ![t] = << >>],
         status' = [status EXCEPT ![t] = x],
         methods' = methods
  PROVE  TypeInv'
BY DEF TypeInv, TypeOK, RunningHasFrame

\* The stack after Acquire and after Done, one level at a time.
LEMMA AcquireStack ==
  ASSUME NEW t \in Threads,
         stack' = [stack EXCEPT ![t][Len(stack[t])] = Granted(@)]
  PROVE  stack' = [stack EXCEPT ![t] = [stack[t] EXCEPT ![Len(stack[t])] = Granted(Top(t))]]
BY DEF Top

LEMMA DoneStack ==
  ASSUME NEW t \in Threads, Done(t)
  PROVE  stack' = [stack EXCEPT ![t] = [stack[t] EXCEPT ![Len(stack[t])] = Returned(Top(t))]]
BY DEF Done, Top

\* Replacing the top frame of a running thread by a frame.
LEMMA TopReplaced ==
  ASSUME TypeInv, NEW t \in Threads, status[t] = "run", NEW f \in Frame
  PROVE  LET s2 == [stack[t] EXCEPT ![Len(stack[t])] = f] IN
           /\ s2 \in Seq(Frame) /\ s2 # << >>
           /\ Len(s2) = Len(stack[t])
           /\ \A k \in 1 .. Len(stack[t]) - 1 : s2[k] = stack[t][k]
           /\ s2[Len(stack[t])] = f
<1>1. stack[t] \in Seq(Frame) /\ Len(stack[t]) \in 1 .. Len(stack[t])
  BY TopFrame
<1>. QED
  BY <1>1, ExceptSeq

\* A length other than 0 and 1 leaves a non-empty stack when one is popped.
LEMMA LongerThanOne ==
  ASSUME NEW n \in Nat \ {0}, n # 1
  PROVE  n > 1 /\ n - 1 \in Nat \ {0}
OBVIOUS

LEMMA OneLess ==
  ASSUME NEW n \in Nat, n > 1
  PROVE  n - 1 \in Nat \ {0}
OBVIOUS

\* Pushing a frame, and popping one from a stack of two or more.
LEMMA PushFrame ==
  ASSUME NEW s \in Seq(Frame), NEW f \in Frame
  PROVE  Append(s, f) \in Seq(Frame) /\ Append(s, f) # << >>
BY AppendProperties

\* A sequence with a positive length is not empty.
LEMMA NotEmptyByLen ==
  ASSUME NEW q, NEW n \in Nat \ {0}, Len(q) = n
  PROVE  q # << >>
BY SMT

LEMMA PopFrame ==
  ASSUME NEW s \in Seq(Frame), Len(s) > 1
  PROVE  LET p == SubSeq(s, 1, Len(s) - 1) IN
           /\ p \in Seq(Frame) /\ Len(p) = Len(s) - 1 /\ p # << >>
           /\ \A k \in 1 .. Len(s) - 1 : p[k] = s[k]
<1>0. Len(s) - 1 \in Nat \ {0}
  <2>1. Len(s) \in Nat
    BY LenProperties
  <2>. QED
    BY <2>1, OneLess, Zenon
<1> DEFINE p == SubSeq(s, 1, Len(s) - 1)
<1>1. \A k \in 1 .. Len(s) - 1 : s[k] \in Frame
  OBVIOUS
<1>2. /\ p \in Seq(Frame) /\ Len(p) = Len(s) - 1
      /\ \A k \in 1 .. Len(s) - 1 : p[k] = s[k]
  BY <1>1, SubSeqProperties
<1>3. p # << >>
  BY <1>0, <1>2, NotEmptyByLen, Zenon
<1>. QED
  BY <1>2, <1>3

\* Replacing the last frame of a stack by a frame.
LEMMA LastReplaced ==
  ASSUME NEW s \in Seq(Frame), s # << >>, NEW f \in Frame
  PROVE  LET s2 == [s EXCEPT ![Len(s)] = f] IN
           /\ s2 \in Seq(Frame) /\ s2 # << >>
           /\ Len(s2) = Len(s)
           /\ \A k \in 1 .. Len(s) - 1 : s2[k] = s[k]
           /\ s2[Len(s)] = f
<1>1. Len(s) \in 1 .. Len(s)
  OBVIOUS
<1>. QED
  BY <1>1, ExceptSeq

\* A step of one thread that keeps it running or stopped and the tables
\* typed keeps the invariant.
LEMMA ThreadStep ==
  ASSUME TypeInv, NEW t \in Threads, NEW s2 \in Seq(Frame),
         stack' = [stack EXCEPT ![t] = s2], status' = status,
         s2 = << >> <=> stack[t] = << >>,
         methods' \in [Objects -> [Names -> Codes \cup {NoMethod}]]
  PROVE  TypeInv'
BY DEF TypeInv, TypeOK, RunningHasFrame

\* Every state is well typed, and a thread has frames exactly while it runs.
\* The code Send or RunCode runs when the lookup succeeded is a code.
LEMMA CalleeCode ==
  ASSUME TypeInv, NEW t \in Threads, Call(t),
         LET i == Ins(Top(t)) IN ~(i.kind = "send" /\ methods[i.recv][i.name] = NoMethod)
  PROVE  LET i == Ins(Top(t)) IN
           (IF i.kind = "send" THEN methods[i.recv][i.name] ELSE i.code) \in Codes
<1> DEFINE i == Ins(Top(t))
<1>1. status[t] = "run" /\ i \in Instructions /\ i.kind \in {"send", "runCode"}
  BY TopFrame, CurrentIns DEF Call, Holding
<1>2. CASE i.kind = "send"
  <2>1. i.recv \in Objects /\ i.name \in Names
    BY <1>1, <1>2, InstructionFields
  <2>. QED
    BY <1>2, <2>1 DEF TypeInv, TypeOK
<1>3. CASE i.kind = "runCode"
  BY <1>1, <1>3, InstructionFields
<1>. QED
  BY <1>1, <1>2, <1>3

\* Every step keeps the type invariant.
LEMMA TypeStep == TypeInv /\ [Next]_vars => TypeInv'
<1>2. TypeInv /\ [Next]_vars => TypeInv'
  <2> SUFFICES ASSUME TypeInv, [Next]_vars PROVE TypeInv'
    OBVIOUS
  <2>1. ASSUME NEW t \in Threads, Acquire(t) PROVE TypeInv'
    <3>1. status[t] = "run" /\ Top(t) \in Frame
      BY <2>1, TopFrame DEF Acquire, Requesting
    <3>2. Granted(Top(t)) \in Frame
      BY <3>1, FrameUpdates
    <3>3. stack' = [stack EXCEPT ![t] = [stack[t] EXCEPT ![Len(stack[t])] = Granted(Top(t))]]
      BY <2>1, AcquireStack DEF Acquire
    <3>4. [stack[t] EXCEPT ![Len(stack[t])] = Granted(Top(t))] \in Seq(Frame)
          /\ [stack[t] EXCEPT ![Len(stack[t])] = Granted(Top(t))] # << >>
      BY <3>1, <3>2, TopReplaced
    <3>5. methods' \in [Objects -> [Names -> Codes \cup {NoMethod}]] /\ status' = status
      BY <2>1 DEF Acquire, TypeInv, TypeOK
    <3>6. ([stack[t] EXCEPT ![Len(stack[t])] = Granted(Top(t))] = << >>) <=> (stack[t] = << >>)
      BY <3>1, <3>4 DEF TypeInv, RunningHasFrame
    <3>. QED
      BY <3>3, <3>4, <3>5, <3>6, ThreadStep, Zenon
  <2>2. ASSUME NEW t \in Threads, LockPanic(t) PROVE TypeInv'
    BY <2>2, Unwound DEF LockPanic
  <2>3. ASSUME NEW t \in Threads, Execute(t) PROVE TypeInv'
    <3> DEFINE i == Ins(Top(t))
    <3>1. status[t] = "run" /\ Top(t) \in Frame /\ i \in Instructions
      BY <2>3, TopFrame, CurrentIns DEF Execute, Holding
    <3>2. Returned(Top(t)) \in Frame
      BY <3>1, FrameUpdates
    <3>3. ASSUME Done(t), status' = status
          PROVE  stack' \in [Threads -> Seq(Frame)] /\ RunningHasFrame'
      <4>1. stack' = [stack EXCEPT ![t] = [stack[t] EXCEPT ![Len(stack[t])] = Returned(Top(t))]]
        BY <3>3, DoneStack
      <4>2. [stack[t] EXCEPT ![Len(stack[t])] = Returned(Top(t))] \in Seq(Frame)
            /\ [stack[t] EXCEPT ![Len(stack[t])] = Returned(Top(t))] # << >>
        BY <3>1, <3>2, TopReplaced
      <4>. QED
        BY <3>1, <3>3, <4>1, <4>2 DEF TypeInv, TypeOK, RunningHasFrame
    <3>4. CASE i.kind = "defMethod" /\ methods' = [methods EXCEPT ![i.recv][i.name] = i.code]
                 /\ Done(t) /\ UNCHANGED status
      <4>1. i.recv \in Objects /\ i.name \in Names /\ i.code \in Codes
        BY <3>1, <3>4, InstructionFields
      <4>. QED
        BY <3>3, <3>4, <4>1 DEF TypeInv, TypeOK
    <3>5. CASE Done(t) /\ UNCHANGED <<methods, status>>
      BY <3>3, <3>5 DEF TypeInv, TypeOK
    <3>6. CASE Fail(t)
      BY <3>6, Unwound DEF Fail
    <3>. QED
      BY <2>3, <3>4, <3>5, <3>6 DEF Execute
  <2>4. ASSUME NEW t \in Threads, Call(t) PROVE TypeInv'
    <3> DEFINE i == Ins(Top(t))
    <3>1. status[t] = "run" /\ stack[t] \in Seq(Frame) /\ i \in Instructions
      BY <2>4, TopFrame, CurrentIns DEF Call, Holding
    <3>2. CASE i.kind = "send" /\ methods[i.recv][i.name] = NoMethod
      <4>1. Fail(t)
        BY <2>4, <3>2 DEF Call
      <4>. QED
        BY <4>1, Unwound DEF Fail
    <3>3. CASE ~(i.kind = "send" /\ methods[i.recv][i.name] = NoMethod)
      <4> DEFINE c == IF i.kind = "send" THEN methods[i.recv][i.name] ELSE i.code
      <4>1. c \in Codes
        BY <2>4, <3>3, CalleeCode
      <4>2. Append(stack[t], [code |-> c, pc |-> 0, acq |-> 0]) \in Seq(Frame)
            /\ Append(stack[t], [code |-> c, pc |-> 0, acq |-> 0]) # << >>
        <5>1. [code |-> c, pc |-> 0, acq |-> 0] \in Frame
          BY <4>1 DEF Frame
        <5>. QED
          BY <3>1, <5>1, PushFrame
      <4>3. /\ stack' = [stack EXCEPT ![t] = Append(stack[t], [code |-> c, pc |-> 0, acq |-> 0])]
            /\ UNCHANGED <<methods, status>>
        BY <2>4, <3>3 DEF Call
      <4>4. methods' \in [Objects -> [Names -> Codes \cup {NoMethod}]] /\ status' = status
        BY <4>3 DEF TypeInv, TypeOK
      <4>5. (Append(stack[t], [code |-> c, pc |-> 0, acq |-> 0]) = << >>) <=> (stack[t] = << >>)
        BY <3>1, <4>2 DEF TypeInv, RunningHasFrame
      <4>. QED
        BY <4>2, <4>3, <4>4, <4>5, ThreadStep, Zenon
    <3>. QED
      BY <3>2, <3>3
  <2>5. ASSUME NEW t \in Threads, Leave(t) PROVE TypeInv'
    <3>1. stack[t] \in Seq(Frame) /\ Len(stack[t]) \in Nat \ {0}
      BY <2>5, TopFrame DEF Leave
    <3>2. CASE Len(stack[t]) = 1
      BY <2>5, <3>2, Unwound DEF Leave
    <3>3. CASE Len(stack[t]) # 1
      <4>0. Len(stack[t]) > 1 /\ Len(stack[t]) - 1 \in Nat \ {0}
        BY <3>1, <3>3, LongerThanOne, Zenon
      <4> DEFINE s == SubSeq(stack[t], 1, Len(stack[t]) - 1)
                 s2 == [s EXCEPT ![Len(s)] = Returned(s[Len(s)])]
      <4>1. s \in Seq(Frame) /\ Len(s) = Len(stack[t]) - 1 /\ Len(s) \in Nat \ {0}
        BY <3>1, <4>0, PopFrame
      <4>2. Returned(s[Len(s)]) \in Frame
        BY <4>1, FrameUpdates
      <4>3. s2 \in Seq(Frame) /\ s2 # << >>
        <5>1. s2 \in Seq(Frame) /\ Len(s2) = Len(s)
          BY <4>1, <4>2, ExceptSeq
        <5>. QED
          BY <4>1, <5>1
      <4>4. /\ stack' = [stack EXCEPT ![t] = s2]
            /\ UNCHANGED <<methods, status>>
        BY <2>5, <3>3 DEF Leave
      <4>5. methods' \in [Objects -> [Names -> Codes \cup {NoMethod}]] /\ status' = status
        BY <4>4 DEF TypeInv, TypeOK
      <4>6. (s2 = << >>) <=> (stack[t] = << >>)
        BY <3>1, <4>3 DEF TypeInv, RunningHasFrame
      <4>. QED
        BY <4>3, <4>4, <4>5, <4>6, ThreadStep, Zenon
    <3>. QED
      BY <3>2, <3>3
  <2>6. CASE UNCHANGED vars
    BY <2>6 DEF vars, TypeInv, TypeOK, RunningHasFrame
  <2>. QED
    BY <2>1, <2>2, <2>3, <2>4, <2>5, <2>6 DEF Next, Step
<1>. QED
  BY <1>2

LEMMA TypeInvHolds == Spec => []TypeInv
<1>1. Init => TypeInv
  BY DEF Init, TypeInv, TypeOK, RunningHasFrame, Frame
<1>. QED
  BY <1>1, TypeStep, PTL DEF Spec

\* Every state the handlers reach is well typed: stacks of run() frames,
\* method tables holding codes or NoMethod, and thread states.
THEOREM TypeCorrect == Spec => []TypeOK
<1>1. TypeInv => TypeOK
  BY DEF TypeInv
<1>. QED
  BY <1>1, TypeInvHolds, PTL

=============================================================================
