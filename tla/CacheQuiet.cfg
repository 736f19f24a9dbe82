SPECIFICATION Spec
CONSTANTS
  Threads = {t1, t2}
  NSlots = 2
  NBlocks = 3
  Values = {a, b}
  Meta = Meta
  NoValue = NoValue
  NoThread = NoThread
  DropsOverlap = FALSE
SYMMETRY Symmetric
INVARIANTS TypeOK MetadataIntact
PROPERTY ImplementsBlockDevice
