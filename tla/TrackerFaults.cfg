SPECIFICATION Spec
CONSTANTS
  t1 = t1
  t2 = t2
  s1 = s1
  s2 = s2
  NoOne = NoOne
  Threads <- OneThread
  Main = t1
  Slots <- TwoSlots
  Sizes = {1, 2}
  Configs <- Presets
  SystemOffsets <- AtStart
  HeaderSize = 88
  DefaultAlignment = 16
  Word = 256
  MaxAllocations = 2
  MaxDepth = 1
  MaxDoubleFrees = 2
  BypassThreads = {t1}
  Faults = {"doublefree", "overrun", "danglingwrite"}
  Assumes <- Disciplined
INVARIANTS
  FaultsCounted
  PeakAboveBase
