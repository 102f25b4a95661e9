---------------------------- MODULE MCIntegerOps ----------------------------
(* The integer handlers at a width of 4 bits: every operand pair of       *)
(* -8 .. 7, and a non-integer operand.                                     *)
EXTENDS IntegerOps

CONSTANT NotAnInteger

MCWidth == 4

=============================================================================
