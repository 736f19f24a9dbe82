SPECIFICATION Spec
CONSTANTS
  PtFrames <- MCPtFrames
  UserFrames <- MCUserFrames
  Fan <- MCFan
  W = 24
  Start <- MCStart
  End <- MCEnd
  CodePages = 1
  Values = {old, new}
  Old = old
  NoValue = none
  Watched = {8}
  TlbSize = 1
  ExpandArgs = {1, 2}
  ShrinkArgs = {1, 2}
VIEW Memory
INVARIANTS
  TypeOK
  FramesOwnedOnce
  TlbCoherent
  NextFreeInRange
PROPERTIES
  ImplementsUserMemory
  FaultResolves
