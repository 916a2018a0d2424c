SPECIFICATION Spec
CONSTANTS
  t1 = t1
  t2 = t2
  s1 = s1
  s2 = s2
  NoOne = NoOne
  Threads <- TwoThreads
  Main = t1
  Slots <- TwoSlots
  Sizes = {1, 2}
  Configs <- OnlyTight
  SystemOffsets <- AtStart
  HeaderSize = 88
  DefaultAlignment = 16
  Word = 256
  MaxAllocations = 3
  MaxDepth = 1
  MaxDoubleFrees = 2
  BypassThreads = {}
  Faults = {"smash", "danglingwrite"}
  Assumes <- Disciplined
INVARIANTS
  TypeOK
  HeapSafe
  InstalledWhileLive
  Accounting
  NothingStranded
  QuarantineBounded
  FaultsCounted
  NotLingering
  HookInv
