CONSTANTS
  s1 = s1
  s2 = s2
  one = one
  ninetynine = ninetynine
  None = None
  Programs <- MCPrograms
  Slots <- MCSlots
  IntValues <- MCIntValues
  NoTarget = None
  MaxIterations = 30

SPECIFICATION Spec

INVARIANT TypeOK

\* run() returns, or the iteration bound cuts a loop short; nothing follows.
CHECK_DEADLOCK FALSE
