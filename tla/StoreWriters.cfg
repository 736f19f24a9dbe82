SPECIFICATION Spec
CONSTANTS
  Threads = {t1, t2}
  Keys = {k1, k2}
  NObjs = 2
  PerMark = 2
  BlockBytes = 192
  NDirect = 2
  NIndirect = 0
  NPer = 1
  NBlocks = 3
  WriteOffset = 2
  Values = {a, b}
  NoValue = NoValue
  NoKey = NoKey
  NoThread = NoThread
  Failed = Failed
  Ops = {"create", "unlink", "read", "write"}
  Alone = {"unlink"}
  Rewrite = FALSE
  Replace = FALSE
  Spill = FALSE
SYMMETRY Symmetric
INVARIANT BlocksAccounted
PROPERTY ImplementsKeyStore
CHECK_DEADLOCK FALSE
