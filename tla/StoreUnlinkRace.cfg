SPECIFICATION Spec
CONSTANTS
  Threads = {t1, t2}
  Keys = {k1, k2}
  NObjs = 2
  PerMark = 2
  BlockBytes = 192
  NDirect = 1
  NIndirect = 0
  NPer = 1
  NBlocks = 4
  WriteOffset = 2
  Values = {a, b}
  NoValue = NoValue
  NoKey = NoKey
  NoThread = NoThread
  Failed = Failed
  Ops = {"create", "unlink", "write"}
  Alone = {}
  Rewrite = FALSE
  Replace = FALSE
  Spill = FALSE
SYMMETRY Symmetric
INVARIANT NoSharedBlocks
