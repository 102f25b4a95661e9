CONSTANTS
  A = A  B = B  N = N  C = C  I = I
  t1 = t1  t2 = t2  t3 = t3  None = None
  Threads = {t1}
  Objects <- MCObjects
  Names <- MCNames
  Codes <- MCCodes
  NoMethod = None
  Body <- SelfBody
  Root <- SelfRoot
  MaxDepth = 3
SPECIFICATION FairSpec
INVARIANT NoDeadlock
CHECK_DEADLOCK FALSE
