SPECIFICATION Spec
CONSTANTS
  Main = main
  Workers = {w1, w2, w3, w4}
  NoThread = NoThread
  Thrown = {}
  Nested = TRUE
  ThreadsMayFail = FALSE
  MaxRuns = 3
  MaxPasses = 0
  MaxFailures = 2
INVARIANT TouchedByOne
SYMMETRY WorkerSymmetry
