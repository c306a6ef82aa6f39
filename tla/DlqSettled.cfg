SPECIFICATION FairSpec
CONSTANTS
  Items = {d1}
  Admins = {a1, a2}
  Consumers = {c1}
  None = None
  Lease = 1
  MaxQueue = 2
  MaxFaults = 1
PROPERTIES
  SettledNeverRetried
