CONSTANTS
  A = A  B = B  N = N  C = C  I = I
  t1 = t1  t2 = t2  t3 = t3  None = None
  Threads = {t1, t2, t3}
  Objects <- MCObjects
  Names <- MCNames
  Codes <- MCCodes
  NoMethod = None
  Body <- SharedBody
  Root <- SharedRoot
  MaxDepth = 3
SPECIFICATION FairSpec
INVARIANT TypeOK
INVARIANT NoDeadlock
PROPERTY AllThreadsFinish
CHECK_DEADLOCK FALSE
