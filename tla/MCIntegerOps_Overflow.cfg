CONSTANTS
  NotAnInteger = NotAnInteger
  NonInteger <- NotAnInteger
  Width <- MCWidth
  Build = "debug"
SPECIFICATION Spec

INVARIANT NoPanicOnDefined
CHECK_DEADLOCK FALSE
