SPECIFICATION Spec
CONSTANTS
  Cases = 1
  Offers <- AllOffer
  Askable <- BasicOrMemory
  TearDownChecks = {}
  TearDownFails = {}
  MaxChecks = 2
  MaxGroups = 2
  MaxDepth = 2
  MaxTimes = 0
  MaxTallies = 0
INVARIANT ReportCarriesFailures
