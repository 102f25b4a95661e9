CONSTANTS
  s1 = s1
  s2 = s2
  one = one
  ninetynine = ninetynine
  None = None
  Programs <- MCScenario3
  Slots <- MCSlots
  IntValues <- MCIntValues
  NoTarget = None
  MaxIterations = 10

SPECIFICATION FairSpec

PROPERTY Terminates

\* run() returns, or the iteration bound cuts a loop short; nothing follows.
CHECK_DEADLOCK FALSE
