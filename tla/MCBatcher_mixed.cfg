CONSTANTS
  Requests = {r1, r2, r3}
  MaxBatch = 3
  Inputs <- MixedInputs
  Outputs = {"p"}
  Filters <- NoFilter
  NoRequest = NoRequest
  NoOutput = NoOutput
  Garbage = Garbage
SPECIFICATION Spec
INVARIANT SplitBackCorrectly
