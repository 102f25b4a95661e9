----------------------------- MODULE IntegerOps -----------------------------
(***************************************************************************)
(* The integer handlers of src/src/virtual_machine.rs (ins_integer_add ... *)
(* ins_integer_equals): ensure_integers!, then Rust's built-in i64         *)
(* operator, then an integer object or the true/false singleton in the     *)
(* result register.  The operators are modelled at a width of Width bits   *)
(* (64 in the program) in the build the program is compiled in: a debug   *)
(* build checks arithmetic overflow and shift counts and panics, a release *)
(* build wraps and masks; division by zero and MIN / -1 panic in both.     *)
(*                                                                         *)
(* SpecResult is spec 4.9 as a reference: two's-complement wrapping,       *)
(* truncated division and remainder, shifts defined for counts in          *)
(* 0 .. Width-1, and a fatal error for division by zero, a bad shift count *)
(* or an operand that is not an integer.                                   *)
(***************************************************************************)
EXTENDS Integers

CONSTANTS
  Width,       \* bits of an i64
  Build,       \* "debug" or "release"
  NonInteger   \* an operand object that is not an integer

ASSUME IntegerOpsAssumption ==
  /\ Width \in Nat \ {0}
  /\ \E k \in 0 .. Width : 2^k = Width
  /\ Build \in {"debug", "release"}
  /\ NonInteger \notin Int

Modulus == 2^Width
IntMin == -(2^(Width - 1))
IntMax == 2^(Width - 1) - 1
I64 == IntMin .. IntMax

Ops == {"add", "sub", "mul", "div", "mod", "and", "or", "xor", "shl", "shr",
        "smaller", "greater", "equals"}

Operands == I64 \cup {NonInteger}

IntObj(x) == [kind |-> "int", val |-> x]
BoolObj(b) == [kind |-> "bool", val |-> b]
Err == [kind |-> "err"]
Panic == [kind |-> "panic"]
NoResult == [kind |-> "none"]  \* the handler has not run yet

Outcomes ==
  {IntObj(x) : x \in I64} \cup {BoolObj(b) : b \in BOOLEAN} \cup {Err, Panic}

\* Two's-complement reduction of an exact result to Width bits.
Wrap(x) == ((x - IntMin) % Modulus) + IntMin

AbsVal(x) == IF x < 0 THEN -x ELSE x

\* The bits of x's two's-complement representation.
Unsigned(x) == x % Modulus
Bit(x, i) == (Unsigned(x) \div 2^i) % 2

\* The signed integer whose bit i is bits[i].
FromBits(bits) ==
  LET acc[i \in 0 .. Width] == IF i = 0 THEN 0 ELSE acc[i - 1] + bits[i - 1] * 2^(i - 1)
  IN  Wrap(acc[Width])

-----------------------------------------------------------------------------
(* Mutants: slips in the translation of the operators, each defined before *)
(* the operator it stands in for.                                          *)

\* Division rounding down instead of toward zero.
QuotFloor(a, b) == a \div b

\* Release arithmetic that forgets to wrap.
CheckedNoWrap(x) == IF x \in I64 \/ Build = "release" THEN IntObj(x) ELSE Panic

-----------------------------------------------------------------------------
(* Rust's i64 operators.                                                   *)

\* +, -, * on i64 with exact result x: overflow panics in a debug build and
\* wraps in a release build.
Checked(x) ==
  IF x \in I64 THEN IntObj(x)
  ELSE IF Build = "debug" THEN Panic
  ELSE IntObj(Wrap(x))

\* Rust's / on integers truncates toward zero; % takes the sign of the
\* dividend.
Quot(a, b) ==
  IF (a < 0) = (b < 0) THEN AbsVal(a) \div AbsVal(b) ELSE -(AbsVal(a) \div AbsVal(b))

Rem(a, b) == a - b * Quot(a, b)

\* / and %: a zero divisor panics, and so does MIN / -1 (and MIN % -1),
\* in every build.
DivLike(a, b, r) ==
  IF b = 0 \/ (a = IntMin /\ b = -1) THEN Panic ELSE IntObj(r)

\* << and >> with an i64 count: a debug build panics on a count outside
\* 0 .. Width-1; a release build masks it with Width-1 (Width is a power
\* of two).  >> is arithmetic.
ShiftLike(b, r) ==
  IF Build = "debug" /\ ~(0 <= b /\ b < Width) THEN Panic ELSE IntObj(r)

ShiftCount(b) == b % Width

\* &, |, ^ on the two's-complement bits.
BitAnd(a, b) == FromBits([i \in 0 .. Width - 1 |-> Bit(a, i) * Bit(b, i)])
BitOr(a, b) == FromBits([i \in 0 .. Width - 1 |-> IF Bit(a, i) + Bit(b, i) > 0 THEN 1 ELSE 0])
BitXor(a, b) == FromBits([i \in 0 .. Width - 1 |-> (Bit(a, i) + Bit(b, i)) % 2])

\* One integer handler: ensure_integers!, the operator, the result object.
Handler(op, a, b) ==
  IF a = NonInteger \/ b = NonInteger THEN Err
  ELSE CASE op = "add" -> Checked(a + b)
         [] op = "sub" -> Checked(a - b)
         [] op = "mul" -> Checked(a * b)
         [] op = "div" -> DivLike(a, b, Quot(a, b))
         [] op = "mod" -> DivLike(a, b, Rem(a, b))
         [] op = "and" -> IntObj(BitAnd(a, b))
         [] op = "or" -> IntObj(BitOr(a, b))
         [] op = "xor" -> IntObj(BitXor(a, b))
         [] op = "shl" -> ShiftLike(b, Wrap(a * 2^ShiftCount(b)))
         [] op = "shr" -> ShiftLike(b, a \div 2^ShiftCount(b))
         [] op = "smaller" -> BoolObj(a < b)
         [] op = "greater" -> BoolObj(a > b)
         [] op = "equals" -> BoolObj(a = b)

-----------------------------------------------------------------------------
(* The reference of spec 4.9, stated by the properties of each result.     *)

\* The truncated quotient and remainder of a by b # 0.
SpecDivision(a, b) ==
  CHOOSE qr \in (-Modulus .. Modulus) \X (-Modulus .. Modulus) :
    /\ a = b * qr[1] + qr[2]
    /\ AbsVal(qr[2]) < AbsVal(b)
    /\ qr[2] = 0 \/ (qr[2] < 0) = (a < 0)

SpecBits(a, b, f(_, _)) ==
  IntObj(CHOOSE r \in I64 : \A i \in 0 .. Width - 1 : Bit(r, i) = f(Bit(a, i), Bit(b, i)))

SpecAnd(x, y) == x * y
SpecOr(x, y) == IF x = 1 \/ y = 1 THEN 1 ELSE 0
SpecXor(x, y) == IF x = y THEN 0 ELSE 1

SpecResult(op, a, b) ==
  IF a = NonInteger \/ b = NonInteger THEN Err
  ELSE CASE op \in {"add", "sub", "mul"} ->
              IntObj(Wrap(CASE op = "add" -> a + b [] op = "sub" -> a - b [] OTHER -> a * b))
         [] op \in {"div", "mod"} ->
              IF b = 0 THEN Err
              ELSE IntObj(Wrap(SpecDivision(a, b)[IF op = "div" THEN 1 ELSE 2]))
         [] op = "and" -> SpecBits(a, b, SpecAnd)
         [] op = "or" -> SpecBits(a, b, SpecOr)
         [] op = "xor" -> SpecBits(a, b, SpecXor)
         [] op \in {"shl", "shr"} ->
              IF b < 0 \/ b >= Width THEN Err
              ELSE IF op = "shl" THEN IntObj(Wrap(a * 2^b))
              ELSE IntObj(CHOOSE r \in I64 : r * 2^b <= a /\ a < (r + 1) * 2^b)
         [] op = "smaller" -> BoolObj(a < b)
         [] op = "greater" -> BoolObj(a > b)
         [] op = "equals" -> BoolObj(a = b)

-----------------------------------------------------------------------------
(* One handler call on every pair of operands.                             *)

VARIABLES op, lhs, rhs, result

vars == <<op, lhs, rhs, result>>

TypeOK ==
  /\ op \in Ops
  /\ lhs \in Operands
  /\ rhs \in Operands
  /\ result \in Outcomes \cup {NoResult}

Init ==
  /\ op \in Ops
  /\ lhs \in Operands
  /\ rhs \in Operands
  /\ result = NoResult

Execute ==
  /\ result = NoResult
  /\ result' = Handler(op, lhs, rhs)
  /\ UNCHANGED <<op, lhs, rhs>>

Spec == Init /\ [][Execute]_vars

-----------------------------------------------------------------------------
(* Properties.                                                             *)

\* Wherever spec 4.9 defines a value and the handler stores one, the two
\* agree: two's-complement wrapping, truncated division and remainder,
\* arithmetic shifts, bitwise operations on the two's-complement bits.
ResultAsSpecified ==
  /\ result \notin {NoResult, Panic}
  /\ SpecResult(op, lhs, rhs) # Err
  => result = SpecResult(op, lhs, rhs)

\* Spec 4.9 and 7: division by zero, a shift count outside the width and a
\* type mismatch are fatal errors, which the handler returns as Err for
\* error() to report.
FatalErrorsAsSpecified ==
  result # NoResult /\ SpecResult(op, lhs, rhs) = Err => result = Err

\* Spec 4.9: integer arithmetic wraps, so a handler whose result the spec
\* defines never panics the thread.
NoPanicOnDefined ==
  result = Panic => SpecResult(op, lhs, rhs) = Err

=============================================================================
