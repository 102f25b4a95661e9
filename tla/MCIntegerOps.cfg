CONSTANTS
  NotAnInteger = NotAnInteger
  NonInteger <- NotAnInteger
  Width <- MCWidth
  Build = "release"
SPECIFICATION Spec
INVARIANT TypeOK
INVARIANT ResultAsSpecified
CHECK_DEADLOCK FALSE
