CONSTANTS
  Requests = {r1, r2, r3}
  MaxBatch = 2
  Inputs <- PlainInputs
  Outputs = {"p"}
  Filters <- NoFilter
  NoRequest = NoRequest
  NoOutput = NoOutput
  Garbage = Garbage
SPECIFICATION FairSpec
INVARIANTS
  TypeOK
  NoLostWakeup
  PromiseSetOnce
  NoAbandonedFuture
  FlushBounds
  QueueWaitsOnce
  IInv
PROPERTIES
  ImplementsFifo
  FullBatchIsTaken
  DestructorReturns
  FuturesResolve
