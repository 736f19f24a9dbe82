SPECIFICATION Spec
CONSTANTS
  PtFrames <- MCPtFrames
  UserFrames <- MCUserFrames
  NIndex = 4
  Layouts <- MCLayouts
  Versions = {"context_mm", "actual"}
  Boots <- MCBoots
INVARIANTS
  TypeOK
  LaunchAccepted
  OnlySegmentsMapped
  TablesFormTree
  FramesReturned
