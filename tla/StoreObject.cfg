SPECIFICATION Spec
CONSTANTS
  Threads = {t1}
  Keys = {k1, k2}
  NObjs = 2
  PerMark = 2
  BlockBytes = 160
  NDirect = 1
  NIndirect = 1
  NPer = 2
  NBlocks = 4
  WriteOffset = 2
  Values = {a, b}
  NoValue = NoValue
  NoKey = NoKey
  NoThread = NoThread
  Failed = Failed
  Ops = {"create", "unlink", "rename", "getattr", "open", "read", "write", "unmount"}
  Alone = {}
  Rewrite = FALSE
  Replace = FALSE
  Spill = FALSE
SYMMETRY Symmetric
INVARIANTS BlocksAccounted SizeRight FreeSlotsEmpty
PROPERTIES MountRestores ImplementsKeyStore
