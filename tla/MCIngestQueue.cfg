CONSTANTS
  r1 = r1
  r2 = r2
  r3 = r3
  r4 = r4
  w1 = w1
  w2 = w2
  Requests <- MCRequests
  Workers <- MCWorkers
  NoBatch = NoBatch
  QueueSize = 1
  MaxCrashes = 1
SPECIFICATION FairSpec
INVARIANTS TypeOK InOnePlace GaugeExact Conservation AnswerMatchesFate
PROPERTIES ImplementsDelivery AcceptedIsProcessed
\* the requests are finite, so the server may run out of work
CHECK_DEADLOCK FALSE
