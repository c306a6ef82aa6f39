SPECIFICATION FairSpec
CONSTANTS
  Events = {w1, q1}
  Reads = {q1}
  Requests = {r1, r2}
  Consumers = {c1}
  None = None
  Modes = {"sync", "syncKafka", "async", "asyncNoKafka"}
  Stores = {"redis", "pg"}
  MaxFaults = 3
INVARIANTS
  OneInside
  HandledOnceUnlessMishap
  NothingLostUnlessMishap
  StatusIsTruthful
PROPERTIES
  EventuallyAccounted
CHECK_DEADLOCK FALSE
