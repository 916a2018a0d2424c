SPECIFICATION FairSpec
CONSTANTS
  Main = main
  Workers = {w1, w2, w3}
  NoThread = NoThread
  Thrown = {"message"}
  Nested = TRUE
  ThreadsMayFail = TRUE
  MaxRuns = 2
  MaxPasses = 1
  MaxFailures = 1
INVARIANTS
  TypeOK
  StartTogether
  EveryAssertionCounted
  ResultExact

  
