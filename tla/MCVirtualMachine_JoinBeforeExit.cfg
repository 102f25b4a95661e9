CONSTANTS
  t1 = t1
  t2 = t2
  t3 = t3
  NoT = NoT
  NoP = NoP
  Threads <- MCThreads
  Main = t1
  CodeIds <- MCCodeIds
  Root = "root"
  Paths <- MCPaths
  Body <- MCBody
  FileCode <- MCFileCode
  NoThread = NoT
  NoPath = NoP


SPECIFICATION Spec

INVARIANT JoinBeforeExit

CHECK_DEADLOCK FALSE
