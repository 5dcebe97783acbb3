CONSTANTS
  Requests = {r1, r2}
  Streams = {s1}
  NoCall = NoCall
SPECIFICATION LifeSpec
INVARIANTS
  LifeTypeOK
  CountedOnce
  HonestReply
  StreamAnswersInOrder
  LifeIInv
  NobodyForgotten
PROPERTIES
  AnsweredOnce
  TimeoutBounds
  EveryCallEnds
  ShutdownEnds
  TimeoutBoundsShutdown
