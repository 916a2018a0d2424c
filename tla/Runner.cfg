SPECIFICATION ProgramSpec
CONSTANTS
  Cases = 2
  Offers <- MCOffers
  Askable <- MCAskable
  TearDownChecks = {"stop"}
  TearDownFails = {"stop", "noStop"}
  MaxChecks = 2
  MaxGroups = 2
  MaxDepth = 2
  MaxTimes = 1
  MaxTallies = 2
  Arguments <- MCArguments
  MaxArguments = 3
  Registry <- MCRegistry
  MaxLoop = 999999
  DefaultLoop = 100
  Budgets = {1, 3}
  Tolerances = {0, 1}
  Word = 1024
  MaxRuns = 2
  Matching <- MCMatching
  ScaleOption <- MCScale
  StopAfterOption <- MCStopAfter
  Writes = {"written", "noticed"}
  Composed <- MCComposed
INVARIANTS
  ProgramTypeOK
  GroupCountsExact
  
  GroupsAlive
  
  ReportExact
  
  
  
  PlaceFree
  OptionsExact
  StressExact
  
PROPERTIES
  NoCaseAfterFailure
