SPECIFICATION Spec
CONSTANTS
  Recordings = {r1, r2}
  Series = {s1, s2}
  Bounds <- OneBound
  Values = {2, 3}
  NoSeries = NoSeries
SYMMETRY Symmetry
INVARIANTS TypeOK NothingLost PageIsCurrent PageIsComplete BucketsMeanAtMost LatencyWithinRequests
CHECK_DEADLOCK FALSE
