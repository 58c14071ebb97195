CONSTANTS
  w1 = w1
  w2 = w2
  b1 = b1
  b2 = b2
  r1 = r1
  r2 = r2
  t1 = t1
  t2 = t2
  k1 = k1
  k2 = k2
  Workers <- TwoWorkers
  Tests <- MCTests
  Runs <- MCRuns
  Keys <- MCKeys
  NoKey = NoKey
  Batches <- TwoBatches
  Payload <- FailThenPass
  ScanLimit = 500
  MaxDeliveries <- FailurePostedTwice
  MaxCrashes = 0
  MaxErrors = 1
  MaxUserActions = 1
  MaxAged = 0
SPECIFICATION FairSpec
INVARIANTS OneOpenPerWorker OutcomeFaithful
PROPERTIES PassCloses BatchesFinish RemediationStarts
\* the deliveries are bounded, so the server may run out of work
CHECK_DEADLOCK FALSE
