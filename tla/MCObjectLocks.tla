---------------------------- MODULE MCObjectLocks ---------------------------
(* Programs for ObjectLocks.  Objects: two plain objects A and B, a string *)
(* N used as attribute and method name, a compiled-code object C and an    *)
(* integer I.                                                              *)
EXTENDS ObjectLocks

CONSTANTS A, B, N, C, I, t1, t2, t3, None

Send(r, n) == [kind |-> "send", recv |-> r, name |-> n]
SetAttr(o, n) == [kind |-> "setAttr", target |-> o, nameObj |-> n]
GetAttr(o, n) == [kind |-> "getAttr", source |-> o, nameObj |-> n]
DefMethod(r, n, cc, name, c) ==
  [kind |-> "defMethod", recv |-> r, nameObj |-> n, ccObj |-> cc, name |-> name, code |-> c]
Binop(l, r) == [kind |-> "binop", lhs |-> l, rhs |-> r]
RunCode(cc, a, c) == [kind |-> "runCode", ccObj |-> cc, arg |-> a, code |-> c]
Mutate(o) == [kind |-> "mutate", obj |-> o]
Inspect(o) == [kind |-> "inspect", obj |-> o]

MCObjects == {A, B, N, C, I}
MCNames == {"m"}
MCCodes == {"root1", "root2", "root3", "reader", "helper", "setter", "setA", "setB"}

\* Three threads share A and B: t1 defines a method on A and calls it, t2
\* calls it (perhaps before it exists) and does arithmetic on A, t3 writes
\* an attribute of A, defines and calls a method on B, and at last passes B
\* both as receiver and as name of DefMethod.  The method only reads.
SharedBody ==
  [c \in MCCodes |->
     CASE c = "root1" -> <<DefMethod(A, N, C, "m", "reader"), Send(A, "m"), SetAttr(B, N)>>
       [] c = "root2" -> <<Send(A, "m"), Binop(A, A), RunCode(C, I, "helper")>>
       [] c = "root3" -> <<SetAttr(A, N), DefMethod(B, N, C, "m", "reader"), Send(B, "m"),
                          DefMethod(B, B, C, "m", "reader")>>
       [] c = "reader" -> <<GetAttr(A, N), Binop(A, B)>>
       [] c = "helper" -> <<Mutate(B), Inspect(N)>>
       [] OTHER -> << >>]
SharedRoot == [t \in {t1, t2, t3} |-> CASE t = t1 -> "root1" [] t = t2 -> "root2" [] OTHER -> "root3"]

\* One thread: a method of A that sets an attribute of its receiver.
SelfBody ==
  [c \in MCCodes |->
     CASE c = "root1" -> <<DefMethod(A, N, C, "m", "setter"), Send(A, "m")>>
       [] c = "setter" -> <<SetAttr(A, N)>>
       [] OTHER -> << >>]
SelfRoot == [t \in {t1} |-> "root1"]

\* Two threads: a method of A that sets an attribute of B and a method of
\* B that sets an attribute of A, called at the same time.
CrossBody ==
  [c \in MCCodes |->
     CASE c = "root1" -> <<DefMethod(A, N, C, "m", "setB"), Send(A, "m")>>
       [] c = "root2" -> <<DefMethod(B, N, C, "m", "setA"), Send(B, "m")>>
       [] c = "setA" -> <<SetAttr(A, N)>>
       [] c = "setB" -> <<SetAttr(B, N)>>
       [] OTHER -> << >>]
CrossRoot == [t \in {t1, t2} |-> IF t = t1 THEN "root1" ELSE "root2"]

=============================================================================
