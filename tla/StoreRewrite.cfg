SPECIFICATION Spec
CONSTANTS
  Threads = {t1}
  Keys = {k1, k2}
  NObjs = 2
  PerMark = 2
  BlockBytes = 160
  NDirect = 1
  NIndirect = 1
  NPer = 1
  NBlocks = 3
  WriteOffset = 2
  Values = {a}
  NoValue = NoValue
  NoKey = NoKey
  NoThread = NoThread
  Failed = Failed
  Ops = {"create", "rename", "getattr", "open", "read", "write", "unmount"}
  Alone = {}
  Rewrite = TRUE
  Replace = TRUE
  Spill = TRUE
SYMMETRY Symmetric
INVARIANT TypeOK
PROPERTY MountRestores
CHECK_DEADLOCK FALSE
