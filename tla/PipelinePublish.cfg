SPECIFICATION Spec
CONSTANTS
  Events = {e1}
  Reads = {}
  Requests = {r1, r2}
  Consumers = {c1}
  None = None
  Modes = {"syncKafka"}
  Stores = {"redis"}
  MaxFaults = 1
PROPERTY AppliedNeverDispatchedAgain
CHECK_DEADLOCK FALSE
