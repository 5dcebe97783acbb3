CONSTANTS
  Requests = {r1, r2}
  Streams = {s1}
  NoCall = NoCall
SPECIFICATION FairSpec
PROPERTY TimeoutBoundsEveryCall
