# TLA+ models of the Inko virtual machine

This directory holds TLA+ models of the interpreter in
`src/src/virtual_machine.rs`. It also holds TLC configurations that check them
on small instances and TLAPS proofs of their main safety properties for every
instance. `PROJECT.json` lists the runs, mutants, source map, findings, hazards
and theorems. This file explains them.

## The system

`VirtualMachine` (one Rust file, about 2100 lines of implementation and a few
tests) interprets compiled code. A compiled code is a list of instructions.

- `start(code)` allocates the main thread, registers it in the `ThreadList`,
  runs it with `run_thread`, and returns `exit_status`.
- `run_thread` calls `run()`. It then removes the thread from the list and
  unpins it. On `Err` it calls `error()`, which sets `exit_status` to `Err` and
  prints a backtrace, and then `ThreadList::stop()`, which sets `should_stop`
  on every registered thread.
- `run()` checks `should_stop` once, on entry. Its `while index < count` loop
  increments `index` before each handler. `Goto` overwrites `index`.
  `GotoIfTrue`/`GotoIfFalse` return a `skip_until` target that later iterations
  compare with `index`. `Return` records a register and the loop goes on. Every
  handler is wrapped in `try!`, so its `Err` leaves `run()`, and every enclosing
  `run()` of the thread, at once.
- `run_code` pushes a call frame, runs the code and pops the frame. `Send`,
  `RunCode` and `RunFileFast` call it, so `run()` nests on the thread's stack.
- `StartThread` → `start_thread`: `thread::spawn` a closure that blocks on a
  channel's `recv()`, then `allocate_thread` (which adds the thread to the
  `ThreadList`), then `send` the thread object. The join handle is stored and
  never joined.
- `RunFileFast` checks and inserts the path in `executed_files` under one write
  lock. It then parses the file (a failure is a fatal error) and runs its code
  with `run_code`.

`Thread`, `ThreadList`, `MemoryManager`, the object model and the bytecode
parser are not under `src/`. The models keep only what the VM relies on from
them.

## Modules

| Module | Models | Notes |
|---|---|---|
| `VirtualMachine` | threads, StartThread hand-off, RunFileFast, fatal-error fan-out, exit status | state: `threadList`, `shouldStop`, `exitStatus`, `executed`; per thread a `stage` in `start_thread`/`run_thread`, a stack of `run()` frames (code, next index), the outcome of the outermost `run()`, and the `phase` of a multi-step handler (`alloc`/`send` of StartThread, `parse` of RunFileFast) |
| `MCVirtualMachine` | TLC instance | 3 threads; the root code starts 2 workers, loads `lib.inko` and calls a method; the workers load the same file |
| `VirtualMachineProofs` | TLAPS proofs about `VirtualMachine` | |
| `Dispatch` | the loop of `run()` | `index`, `skip_until`, `retval`, registers as the branches see them; `iterations` is a bounded history counter |
| `MCDispatch` | TLC instance | spec scenario 3 and four codes covering every branch case |
| `DispatchProofs` | TLAPS proofs about `Dispatch` | type correctness |
| `ObjectLocks` | the per-object read/write locks every handler takes, on several threads | per thread a stack of `run()` frames `(code, pc, acq)`: `acq` counts the guards the current handler holds; the method tables that `DefMethod` writes and `Send` looks up |
| `ObjectLocksProofs` | TLAPS proofs about `ObjectLocks` | type correctness |
| `MCObjectLocks` | TLC instance | three programs: a shared-heap program with read-only methods, a method writing its own receiver, two methods writing each other's receiver |
| `IntegerOps` | the thirteen binary integer handlers (`ins_integer_add` … `ins_integer_equals`) | Rust's `i64` operators at `Width` bits in a `debug` or `release` build, and `SpecResult`, spec §4.9 stated relationally |
| `MCIntegerOps` | TLC instance | width 4 (operands −8..7) and one non-integer operand |

### VirtualMachine

One action per step of the code; each action is the whole step.

- **`Start`** is `start()` up to `run_thread`. **`Return`** is `start()` reading
  `exit_status` once the main thread's `run_thread` is over.
- **`Begin`** is `run()`'s entry check of `should_stop`.
- **`Instruction`** is any handler without thread-level effect: it returns Ok
  (the index advances) or Err, in which case `Fail` unwinds the thread's whole
  stack.
- **`Call`** is `Send`/`RunCode`: `run_code` pushes a frame, and a stopped thread
  returns at once.
- **`Leave`** is the end of a code: `run_code` pops its frame, and the last pop
  ends `run()` with Ok.
- **`Remove`**, **`Report`** (`error()`) and **`StopAll`** (`ThreadList::stop()`)
  are the tail of `run_thread`.
- **`SpawnThread`**, **`AllocateThread`** and **`SendThread`** are the three
  steps of `start_thread`. Another thread can run between them, and that is
  the point of modelling them separately.
- **`RunFileLock`** is the critical section on `executed_files`.
  **`RunFileParse`** is the parse and the nested `run_code`. `runs` is a history
  variable that counts how often a file's code started.

The data of handlers (registers, objects, values) is left out. Whether a
handler fails is a nondeterministic choice.

### Dispatch

- `Skip` is the `continue` at line 155: it leaves `index` unchanged.
- `Step` is one dispatched iteration. It closes the window, increments the
  index, then runs the handler: `ExecIns`, `ExecSet`, `ExecReturn`,
  `ExecGoto` or `ExecBranch`.
- `Finish` is `Ok(retval)`.

Registers hold `unset`, the `false` or `true` singleton, or one of a few
non-zero integers (model values). Truthiness is spec-modelled, because
`Object::truthy` is not in `src/`.

Spec §9 says the `skip_until` idiom behaves like assigning the next index.
In the code it does not: a taken branch to a target past the next
instruction opens a window that `index` never reaches, because the skipped
iterations do not increment it. So the project states no refinement of an
index-assignment semantics. A mapping that sends an open window's index to
its target would hold only because the endless spin maps to stuttering. The
hang is checked directly instead (`dispatch_scenario3_hangs`).

### ObjectLocks

Each handler's guards are a sequence (`SendLocks`, `SetAttrLocks`,
`GetAttrLocks`, `DefMethodLocks`, `BinopLocks`, `RunCodeLocks`,
`MutateLocks`, `InspectLocks`, `FileWriteLocks`), taken in the order of its
`read_lock!`/`write_lock!` calls. Rust drops them when the handler returns.
`Send` and `RunCode` return only after the nested `run_code`, so a thread
holds the guards of every handler on its stack.

- **`Acquire`** takes the next guard. It follows the `RwLock` of the code's
  toolchain (std over a reader-preferring pthread rwlock). A read waits only
  for another thread's write. A write waits for every holder, the thread
  itself included.
- **`LockPanic`** is std's check that panics when a thread asks again for a
  lock it holds for writing.
- **`Execute`** completes a handler that does not call code. `DefMethod`
  updates the method table, and `GetAttr` may fail on an undefined attribute.
- **`Call`** is `Send`'s `lookup_method`, where an undefined method is an Err,
  or `RunCode`, followed by `run_code`'s push.
- **`Leave`** is the pop, which also drops the calling handler's guards.
- **`Fail`** unwinds the whole thread and drops every guard.

The memory manager's lock is left out. It is only taken inside `allocate`,
which asks for nothing else. The method object's read guard in `Send` is
left out too: no handler ever write-locks a method object. Neither can close
a wait cycle.

A frame's guards are `Guards(s)`: the first `acq` entries of the lock
sequence of the instruction at each frame's `pc`. `Granted(f)` and
`Returned(f)` are the top frame after a guard is taken and after the
handler returns (`index += 1`, every guard dropped).

`NoDeadlock` says the wait-for relation (t waits for u when u holds a guard
that keeps t's request waiting) has no cycle. It uses `TransitiveClosure`
from the community `Relation` module.

The model states no exclusion property of its own guards (a write guard
held alone, or a method table written only under one). Those follow from
the modelled `RwLock` alone, whatever guards the handlers ask for. They
would say nothing about the handlers. Rust also enforces the other half:
`add_method` and the attribute setters need the `&mut` that only a write
guard gives, so a handler that read-locked instead would not compile.
What depends on the handlers' lock sequences is whether the threads
deadlock or finish, and that is what the runs check.

### IntegerOps

`Handler(op, a, b)` is one handler: `ensure_integers!` (a non-integer operand
is `Err`), the operator, then an integer object or the `true`/`false`
singleton. Each operator is modelled by what Rust does:

- `+ - *` (`Checked`): an out-of-range result panics in debug and wraps in
  release.
- `/ %` (`Quot`, `Rem`, `DivLike`): truncate toward zero, and panic on a zero
  divisor or `MIN / -1` in every build.
- `<< >>` (`ShiftLike`, `ShiftCount`): a count outside `0..Width-1` panics in
  debug and is masked with `Width-1` in release. `>>` is arithmetic.
- `& | ^`: act on the two's-complement bits (`Bit`, `FromBits`).

`SpecResult` is spec §4.9 written independently, by properties rather than by
construction: the quotient and remainder are the pair with `a = b*q + r`,
`|r| < |b|` and `r` signed like `a`; a bitwise result is the integer whose
every bit is the operator applied to the operands' bits; `>>` is the `r` with
`r*2^b <= a < (r+1)*2^b`. The state machine calls one handler on every
operand pair.

## Runs

| Run | Result | What it shows |
|---|---|---|
| `vm_threads` | pass, 5638 states | `ListedWhileRunning` (a thread that is ready or running is in the ThreadList); `RunFileAtMostOnce` (a file's code runs at most once, however many threads race on its path); `StoppedOnlyOnFailure` (`should_stop` is set only after `exit_status` is Err) |
| `vm_join` | violation | `start()` returns while spawned threads run (spec §4.12 says they are joined) |
| `vm_stop_race` | violation | a thread allocated after a failing thread's `stop()` runs unflagged (spec §5 says a fatal error stops all peers). Trace: t2 fails and calls stop while t1 is between `thread::spawn` and `allocate_thread`; t3 is then registered without the flag. |
| `vm_stop_checked_once` | violation | a thread with `should_stop` set keeps dispatching, because `run()` tests the flag only on entry (spec §4.4/§5 say the next iteration exits) |
| `dispatch_codes` | pass, 124 states | `TypeOK` over five codes covering every branch case: `Return` records a register's value, never anything else |
| `dispatch_scenario3_hangs` | violation | spec scenario 3 (`GotoIfFalse 5` at index 2) never returns. Once the window is open, `run()` continues without incrementing `index` and spins at index 3. This is a real bug: any matching branch past the next instruction hangs the thread. |
| `locks_shared` | pass, 6195 states | `TypeOK`; `NoDeadlock`; `AllThreadsFinish`. Three threads share A and B through `DefMethod`, `Send` (possibly before the method exists), `SetAttr`, `GetAttr`, arithmetic and `RunCode`, and the methods only read. No wait cycle forms, and under weak fairness every thread leaves `run_thread` |
| `locks_self_write` | violation | a method that sets an attribute of its own receiver hangs its thread. `Send` still holds the receiver's read guard when `SetAttr` asks for the write lock |
| `locks_cross_send` | violation | methods of A and B that write each other's receiver, called on two threads, deadlock. Each thread holds its receiver's read guard |
| `int_release_values` | pass, 7514 states | `TypeOK`; `ResultAsSpecified`: wherever spec §4.9 defines a value and a release build stores one, they agree |
| `int_fatal_errors` | violation | `-8 / 0` panics; spec §4.9/§7 require the fatal `Err` that `error()` reports. A release build also turns a negative or too-large shift count into a value |
| `int_debug_overflow` | violation | in a debug build `-8 + -7` panics where spec §4.9 defines the wrapped result. `MIN / -1` panics in both builds |

A panic is not the spec's fatal error: it unwinds the OS thread past
`run_thread`, so neither `error()` nor `stop()` runs and the exit status stays
Ok. That is the partial-failure hazard listed in `PROJECT.json`.

**Mutants.** Each property of a passing run is broken by a plausible slip in
the code it is about:

| Mutant | Property it breaks |
|---|---|
| `allocate_thread` without the list add | ListedWhileRunning |
| RunFileFast that checks but never inserts | RunFileAtMostOnce |
| `error()` that forgets `exit_status` | StoppedOnlyOnFailure |
| `Return` that records the slot number instead of the register | TypeOK of Dispatch |
| `GetAttr` taking a write lock on its source | NoDeadlock |
| `Send` that runs an undefined method | TypeOK of ObjectLocks |
| a writer-preferring lock (a read waits behind a waiting writer) | AllThreadsFinish |
| division that rounds down instead of toward zero | ResultAsSpecified |
| release arithmetic that does not wrap | TypeOK of IntegerOps |

### Bounds and fairness

- `vm_threads` uses 3 threads, so one thread can be mid-spawn while another
  fails. The root code spawns twice, so two workers race each other and the
  root on one file. Every handler may fail, so failure and stop happen at every
  interleaving point. One path is enough: paths are independent.
- `MCDispatch` bounds the loop at 30 iterations. That is more than any of its
  codes needs without the bug: a hanging code reaches the bound, and the
  backward-`Goto` loop is cut by it.
- `MCObjectLocks` uses three threads and `MaxDepth = 3`, one more than the
  deepest call of its programs. The shared program makes every kind of wait
  happen: a writer waiting for readers, a recursive read, a `Send` racing
  the `DefMethod` it needs, and a reentrant write that panics. The two
  violation programs are the smallest that show each hazard.
- `locks_shared` assumes weak fairness of each thread's `Step`. The OS
  scheduler runs every runnable thread. A thread blocked on a lock is not
  enabled, so fairness promises it nothing until the lock is free. That
  needs no more than `WF`, because in the finite programs a free lock stays
  free once its holders are done.
- `MCIntegerOps` uses width 4. Every operand pair of `-8..7` is enumerated,
  so every boundary case occurs: `MIN`, `-1`, `0`, `MAX`, overflow of each
  operator, shift counts below 0, within the width and beyond it. The
  operators' definitions do not depend on the width except through
  `Modulus`, and the release masking needs the width to be a power of two
  (assumed, as 64 is).
- `CHECK_DEADLOCK FALSE`: the process ends once `start()` has returned, and
  `run()` ends once it returns or hits the bound.
- Fairness (`FairSpec`) is weak fairness per OS thread, justified by the
  preemptive scheduler. The liveness violation needs only `WF` of the loop's
  own thread.

## Proofs (checked by `tlapm`)

### VirtualMachineProofs

The theorems hold for all sets of threads, codes and paths and all program
bodies, under `ConstantsAssumption`.

- **`TypeCorrect`**: `Spec => []TypeOK`. TypeOK is not inductive on its own:
  `SendThread` and `RunFileParse` advance the top frame and need a non-empty
  stack. The strengthening `Wellformed` has three parts:
  - `PhaseRunning`: a thread inside a multi-step handler is running with a
    frame.
  - `ChildWaiting`: the child being handed off is blocked on `recv`.
  - `ChildOwned`: two spawners never hand off the same child.

  `TypeWellformed` proves `TypeOK /\ Wellformed` inductive with one step per
  action. It rests on lemmas about `Advanced` and `Invoked` (they keep a
  non-empty stack of frames) and two lemmas for families of similar actions.
- **`ListedWhileRunningHolds`**, with `ListedInv`: a spawner at the send step
  has already registered its child.
- **`StoppedOnlyOnFailureHolds`**, with `StopInv`: a thread about to call
  `stop()` has been through `error()`.
- **`RunFileAtMostOnceHolds`**, with `RunFileInv`:
  - a path not in `executed_files` has neither run nor a loader;
  - a path being parsed has not run;
  - at most one thread parses a path.

The thread model's `TypeOK` is proved but not checked by a run: its
values come from finite sets the code cannot leave, so no slip in the code
breaks it. Its strengthening `Wellformed` is what the other proofs use.

Each strengthening was first checked by TLC as an invariant of the
`vm_threads` instance.

### DispatchProofs

The theorems hold for all codes, slot sets and iteration bounds, under
`DispatchAssumption`.

- **`TypeCorrect`**: `Spec => []TypeOK`. TypeOK is inductive as it stands:
  one step per action, and under `Step` one per instruction kind. Lemma
  `CurInstr` gives the instruction at the index its type. Lemma
  `InstrFields` gives the fields of each kind.
### ObjectLocksProofs

The theorem holds for all sets of threads, objects, names and codes, every
program `Body`, every `Root` and every depth bound, under
`ObjectLocksAssumption`: bodies are sequences of the instruction records
`Instructions`, `NoMethod` is not a code, and `MaxDepth` is positive.

- **`TypeCorrect`**: `Spec => []TypeOK`. TypeOK is not inductive as it
  stands: `Acquire`, `Execute` and `Leave` read the top frame, so they need
  a running thread to have one. The strengthening `TypeInv` adds
  `RunningHasFrame` (a thread is running exactly when its stack is not
  empty). Lemmas `PushFrame`, `PopFrame` and `LastReplaced` state what
  `run_code`'s push, pop and top-frame update do to a stack of frames.
To make this proof go through, the frame updates are written as record
literals (`Granted`, `Returned`) instead of `EXCEPT` on a record, which the
provers' SMT translation does not accept. TLC gives the same 6195 states.

**Only model-checked.** The following stay with TLC:

- Every liveness or `ENABLED` property (`AllThreadsFinish`,
  `Terminates`). The provers do
  not handle them here.
- `NoDeadlock` of ObjectLocks. It is not a theorem: whether it holds
  depends on the program. The `locks_self_write` and `locks_cross_send`
  runs show programs that deadlock.
- `TypeOK` and `ResultAsSpecified` of IntegerOps. `FromBits` reads a
  two's-complement value by a recursive function over the bits. Saying
  what it computes for every width is induction over data, which the
  installed provers cannot instantiate. The truncated quotient is also a
  `CHOOSE` whose uniqueness is nonlinear arithmetic. Even the type
  invariant needs `Modulus = 2^Width` to be a positive integer, and the
  SMT backend cannot reason about `2^n` for a symbolic `n`. It folds only
  constant powers.
- Anything about the violation runs. They are counterexamples rather than
  theorems.

## Not modelled (yet)

- **Lock poisoning**: a panic inside a write guard poisons the lock. What
  `read_lock!`/`write_lock!` then do is in macros outside `src/`.
- **The prototype chain in `lookup_method`**: `Object` is outside `src/`. The
  models look a method up in the receiver's own table.
- **Float handlers and the integer/float/string conversions**: IEEE-754
  arithmetic and formatting do not fit a useful bounded model.
- **Panics as a handler outcome**: a panicking thread skips `error()`.
- **Prototype lookup, arrays, strings and I/O**: data operations with no
  thread-level effect; I/O errors are values.
- **The parser and the object model**: they are outside `src/`.

### Plan

1. A panic outcome in `VirtualMachine`.
2. The effects of a loaded file's code, so that the RunFileFast early return
   on a path another thread is still loading can be checked.
