CONSTANTS
  NotAnInteger = NotAnInteger
  NonInteger <- NotAnInteger
  Width <- MCWidth
  Build = "release"
SPECIFICATION Spec

INVARIANT FatalErrorsAsSpecified
CHECK_DEADLOCK FALSE
