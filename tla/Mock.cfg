SPECIFICATION FairSpec
CONSTANTS
  Threads = {t1, t2}
  NoOne = NoOne
  Arguments = {a}
  Bodies = {b}
  NoBody = NoBody
  ReturnTypes = {"void", "value", "unbuildable"}
  CopiesMayThrow = TRUE
  MaxCalls = 4
  MaxOnce = 2
  MaxDepth = 2
INVARIANTS
  TypeOK
  CallsAgree
PROPERTIES
  FollowsScript
  CallsReturn
