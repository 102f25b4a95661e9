----------------------------- MODULE ObjectLocks ----------------------------
(***************************************************************************)
(* The per-object read/write locks of src/src/virtual_machine.rs as the    *)
(* handlers take them, on several OS threads sharing one heap.  Each       *)
(* handler acquires its guards (read_lock! / write_lock!) one after the   *)
(* other and drops them all when it returns; Send and RunCode keep theirs  *)
(* across the nested run_code of the method or code they call.             *)
(*                                                                         *)
(* The lock is std::sync::RwLock over a reader-preferring pthread rwlock:  *)
(* a read is granted unless another thread holds the write lock (also to  *)
(* a thread that already reads), a write only when nobody holds the lock   *)
(* (a thread that holds a read blocks on its own write for ever); a thread *)
(* that holds the write lock and asks again panics ("rwlock ... would      *)
(* result in deadlock").  The memory manager's lock, taken by allocate()  *)
(* with nothing further requested while it is held, and the method         *)
(* object's read lock in Send, which no handler ever writes, cannot close  *)
(* a cycle and are left out.                                               *)
(***************************************************************************)
EXTENDS Naturals, Sequences, FiniteSets, Relation

CONSTANTS
  Threads,    \* OS threads running VM code
  Objects,    \* heap objects the instructions name
  Names,      \* method names
  Codes,      \* compiled codes
  NoMethod,   \* lookup_method returned None
  Body,       \* Body[c]: the instructions of compiled code c
  Root,       \* Root[t]: the code thread t starts with
  MaxDepth    \* bound on nested run_code calls

VARIABLES
  stack,      \* stack[t]: the run() frames of thread t
  methods,    \* methods[o][n]: the method table of object o
  status      \* "run", "done", "err" (Err left run_thread) or "panic"

vars == <<stack, methods, status>>

\* The instructions the handlers below decode, with the registers their
\* arguments name resolved to the objects they hold.
Instructions ==
  [kind: {"send"}, recv: Objects, name: Names]
    \cup [kind: {"setAttr"}, target: Objects, nameObj: Objects]
    \cup [kind: {"getAttr"}, source: Objects, nameObj: Objects]
    \cup [kind: {"defMethod"}, recv: Objects, nameObj: Objects, ccObj: Objects,
          name: Names, code: Codes]
    \cup [kind: {"binop"}, lhs: Objects, rhs: Objects]
    \cup [kind: {"runCode"}, ccObj: Objects, arg: Objects, code: Codes]
    \cup [kind: {"mutate", "inspect"}, obj: Objects]
    \cup [kind: {"fileWrite"}, obj: Objects, arg: Objects]

ASSUME ObjectLocksAssumption ==
  /\ NoMethod \notin Codes
  /\ Body \in [Codes -> Seq(Instructions)]
  /\ Root \in [Threads -> Codes]
  /\ MaxDepth \in Nat \ {0}

Acq(o, m) == [obj |-> o, mode |-> m]

\* The guards a handler takes, in the order it takes them.
SendLocks(i) == <<Acq(i.recv, "read")>>
SetAttrLocks(i) == <<Acq(i.nameObj, "read"), Acq(i.target, "write")>>
\* Mutant: GetAttr taking the source's write lock, as a mutating handler
\* would.
GetAttrLocksWrite(i) == <<Acq(i.nameObj, "read"), Acq(i.source, "write")>>

GetAttrLocks(i) == <<Acq(i.nameObj, "read"), Acq(i.source, "read")>>
DefMethodLocks(i) ==
  <<Acq(i.recv, "write"), Acq(i.nameObj, "read"), Acq(i.ccObj, "read")>>
BinopLocks(i) == <<Acq(i.lhs, "read"), Acq(i.rhs, "read")>>
RunCodeLocks(i) == <<Acq(i.ccObj, "read"), Acq(i.arg, "read")>>
MutateLocks(i) == <<Acq(i.obj, "write")>>
InspectLocks(i) == <<Acq(i.obj, "read")>>
FileWriteLocks(i) == <<Acq(i.obj, "write"), Acq(i.arg, "read")>>

Locks(i) ==
  CASE i.kind = "send" -> SendLocks(i)
    [] i.kind = "setAttr" -> SetAttrLocks(i)
    [] i.kind = "getAttr" -> GetAttrLocks(i)
    [] i.kind = "defMethod" -> DefMethodLocks(i)
    [] i.kind = "binop" -> BinopLocks(i)
    [] i.kind = "runCode" -> RunCodeLocks(i)
    [] i.kind = "mutate" -> MutateLocks(i)
    [] i.kind = "inspect" -> InspectLocks(i)
    [] i.kind = "fileWrite" -> FileWriteLocks(i)

Frame == [code: Codes, pc: Nat, acq: Nat]

Top(t) == stack[t][Len(stack[t])]

\* The frame once its handler holds one more guard.
Granted(f) == [code |-> f.code, pc |-> f.pc, acq |-> f.acq + 1]

\* The frame once its handler returned: "index += 1" happened before the
\* handler ran, and its guards are dropped.
Returned(f) == [code |-> f.code, pc |-> f.pc + 1, acq |-> 0]
Ins(f) == Body[f.code][f.pc + 1]
AtIns(f) == f.pc < Len(Body[f.code])

\* The guards the frames of s hold: the first acq of each frame's handler.
Guards(s) ==
  UNION {{Locks(Ins(s[k]))[j] : j \in 1 .. s[k].acq} : k \in 1 .. Len(s)}

\* Thread t holds a guard of mode m on object o.
Holds(t, o, m) == Acq(o, m) \in Guards(stack[t])

HoldsAny(t, o) == Holds(t, o, "read") \/ Holds(t, o, "write")

\* Thread t is taking the next guard of its current handler.
Requesting(t) ==
  /\ status[t] = "run"
  /\ AtIns(Top(t))
  /\ Top(t).acq < Len(Locks(Ins(Top(t))))

Request(t) == Locks(Ins(Top(t)))[Top(t).acq + 1]

\* The threads whose guards keep t's request from being granted.
Blockers(t) ==
  LET r == Request(t) IN
    IF r.mode = "read" THEN {u \in Threads \ {t} : Holds(u, r.obj, "write")}
    ELSE {u \in Threads : HoldsAny(u, r.obj)}

\* Asking again for a lock the thread holds for writing.
Reentrant(t) == Holds(t, Request(t).obj, "write")

\* Mutant: a writer-preferring lock, on which a read also waits while
\* another thread waits to write.
AcquireWriterPreferring(t) ==
  /\ Requesting(t)
  /\ ~Reentrant(t)
  /\ Blockers(t) = {}
  /\ Request(t).mode = "read" =>
       \A u \in Threads \ {t} : Requesting(u) => Request(u) # Acq(Request(t).obj, "write")
  /\ stack' = [stack EXCEPT ![t][Len(stack[t])] = Granted(@)]
  /\ UNCHANGED <<methods, status>>

\* read_lock! / write_lock!: the guard is granted.
Acquire(t) ==
  /\ Requesting(t)
  /\ ~Reentrant(t)
  /\ Blockers(t) = {}
  /\ stack' = [stack EXCEPT ![t][Len(stack[t])] = Granted(@)]
  /\ UNCHANGED <<methods, status>>

\* The std wrapper's deadlock check panics; unwinding drops every guard.
LockPanic(t) ==
  /\ Requesting(t)
  /\ Reentrant(t)
  /\ stack' = [stack EXCEPT ![t] = << >>]
  /\ status' = [status EXCEPT ![t] = "panic"]
  /\ UNCHANGED methods

\* A fatal Err of a handler: try! leaves every run() of the thread, and the
\* guards of every frame are dropped.
Fail(t) ==
  /\ stack' = [stack EXCEPT ![t] = << >>]
  /\ status' = [status EXCEPT ![t] = "err"]
  /\ UNCHANGED methods

Holding(t) ==
  /\ status[t] = "run"
  /\ AtIns(Top(t))
  /\ Top(t).acq = Len(Locks(Ins(Top(t))))

\* The handler returns Ok: "index += 1" happened before it, its guards are
\* dropped at its end.
Done(t) ==
  stack' = [stack EXCEPT ![t][Len(stack[t])] = Returned(@)]

\* A handler that does not call code, once it holds its guards.
Execute(t) ==
  LET i == Ins(Top(t)) IN
  /\ Holding(t)
  /\ i.kind \notin {"send", "runCode"}
  /\ \/ /\ i.kind = "defMethod"
        /\ methods' = [methods EXCEPT ![i.recv][i.name] = i.code]
        /\ Done(t)
        /\ UNCHANGED status
     \/ /\ i.kind \notin {"defMethod", "getAttr"}
        /\ Done(t)
        /\ UNCHANGED <<methods, status>>
     \/ /\ i.kind = "getAttr"
        /\ \/ Done(t) /\ UNCHANGED <<methods, status>>
           \/ Fail(t)   \* undefined attribute

\* Mutant: Send without the lookup check, running an undefined method.
CallUnchecked(t) ==
  LET i == Ins(Top(t)) IN
  /\ Holding(t)
  /\ i.kind \in {"send", "runCode"}
  /\ Len(stack[t]) < MaxDepth
  /\ stack' = [stack EXCEPT ![t] = Append(@,
        [code |-> IF i.kind = "send" THEN methods[i.recv][i.name] ELSE i.code,
         pc |-> 0, acq |-> 0])]
  /\ UNCHANGED <<methods, status>>

\* ins_send / ins_run_code: with their guards held, lookup_method (an
\* undefined method is an Err) and run_code pushing the callee's frame.
Call(t) ==
  LET i == Ins(Top(t)) IN
  /\ Holding(t)
  /\ i.kind \in {"send", "runCode"}
  /\ Len(stack[t]) < MaxDepth
  /\ IF i.kind = "send" /\ methods[i.recv][i.name] = NoMethod
       THEN Fail(t)
       ELSE /\ stack' = [stack EXCEPT ![t] = Append(@,
                 [code |-> IF i.kind = "send" THEN methods[i.recv][i.name] ELSE i.code,
                  pc |-> 0, acq |-> 0])]
            /\ UNCHANGED <<methods, status>>

\* The end of a code: run_code pops the frame and returns to the calling
\* handler, which drops its guards; the last frame ends run_thread.
Leave(t) ==
  /\ status[t] = "run"
  /\ ~AtIns(Top(t))
  /\ IF Len(stack[t]) = 1
       THEN /\ stack' = [stack EXCEPT ![t] = << >>]
            /\ status' = [status EXCEPT ![t] = "done"]
       ELSE /\ stack' = [stack EXCEPT ![t] =
                 LET s == SubSeq(@, 1, Len(@) - 1)
                 IN  [s EXCEPT ![Len(s)] = Returned(@)]]
            /\ UNCHANGED status
  /\ UNCHANGED methods

Init ==
  /\ stack = [t \in Threads |-> <<[code |-> Root[t], pc |-> 0, acq |-> 0]>>]
  /\ methods = [o \in Objects |-> [n \in Names |-> NoMethod]]
  /\ status = [t \in Threads |-> "run"]

Step(t) == Acquire(t) \/ LockPanic(t) \/ Execute(t) \/ Call(t) \/ Leave(t)

Next == \E t \in Threads : Step(t)

Spec == Init /\ [][Next]_vars

\* Every OS thread is scheduled by the preemptive scheduler.
FairSpec == Spec /\ \A t \in Threads : WF_vars(Step(t))

-----------------------------------------------------------------------------
(* Properties.                                                             *)

TypeOK ==
  /\ stack \in [Threads -> Seq(Frame)]
  /\ methods \in [Objects -> [Names -> Codes \cup {NoMethod}]]
  /\ status \in [Threads -> {"run", "done", "err", "panic"}]

\* t waits for u: u holds a guard that keeps t's pending request waiting.
WaitsFor ==
  [p \in Threads \X Threads |->
     Requesting(p[1]) /\ ~Reentrant(p[1]) /\ p[2] \in Blockers(p[1])]

\* Spec 5 and 9: the object locks never deadlock, neither a thread against
\* itself nor threads against each other: no thread waits, directly or
\* through other waiting threads, for a guard it holds itself.
NoDeadlock ==
  LET W == TransitiveClosure(WaitsFor, Threads) IN \A t \in Threads : ~W[t, t]

\* Every thread of the program leaves run_thread, when the handlers of its
\* codes do not wait for each other for ever.
AllThreadsFinish == <>(\A t \in Threads : status[t] # "run")

=============================================================================
