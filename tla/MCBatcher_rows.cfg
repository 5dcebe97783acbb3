CONSTANTS
  Requests = {r1, r2, r3}
  MaxBatch = 3
  Inputs <- RowInputs
  Outputs = {"p", "q"}
  Filters <- RowFilters
  NoRequest = NoRequest
  NoOutput = NoOutput
  Garbage = Garbage
SPECIFICATION Spec
SYMMETRY Symmetry
INVARIANTS
  OwnRows
  AskedOutputs
