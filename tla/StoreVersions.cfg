SPECIFICATION MCSpec
CONSTANTS
    Keys = {k1, k2, k3}
    NObjs = 2
    PerMark = 1
    BlockBytes = 96
    NDirect = 1
    NIndirect = 1
    NPer = 2
    NBlocks = 4
    WriteOffset = 2
    Values = {v1, v2}
    NoValue = NoValue
    NoKey = NoKey
    Done = Done
    Failed = Failed
    LongNames = {k3}
    Careful = TRUE
VIEW Meaning
SYMMETRY Symmetric
PROPERTIES
    OldImplementsMap
    ExampleImplementsMap
