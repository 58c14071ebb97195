CONSTANTS
  w1 = w1
  w2 = w2
  b1 = b1
  b2 = b2
  r1 = r1
  r2 = r2
  t1 = t1
  t2 = t2
  k1 = k1
  k2 = k2
  Workers <- TwoWorkers
  Tests <- MCTests
  Runs <- MCRuns
  Keys <- MCKeys
  NoKey = NoKey
  Batches <- TwoBatches
  Payload <- TwoFailures
  ScanLimit = 500
  MaxDeliveries <- PostedTwice
  MaxCrashes = 1
  MaxErrors = 0
  MaxUserActions = 0
  MaxAged = 1
SPECIFICATION Spec
\* no property tells the workers apart, and none is a liveness property
SYMMETRY WorkerSymmetry
INVARIANTS TypeOK FlakyTagged NoFailureSwallowed OwnKeyWins
PROPERTY RepairedOnFinish
\* the deliveries are bounded, so the server may run out of work
CHECK_DEADLOCK FALSE
