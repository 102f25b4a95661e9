CONSTANTS
  A = A  B = B  N = N  C = C  I = I
  t1 = t1  t2 = t2  t3 = t3  None = None
  Threads = {t1, t2}
  Objects <- MCObjects
  Names <- MCNames
  Codes <- MCCodes
  NoMethod = None
  Body <- CrossBody
  Root <- CrossRoot
  MaxDepth = 3
SPECIFICATION FairSpec
INVARIANT NoDeadlock
CHECK_DEADLOCK FALSE
