SPECIFICATION FairSpec
CONSTANTS
  Items = {d1}
  Admins = {a1, a2}
  Consumers = {c1, c2}
  None = None
  Lease = 1
  MaxQueue = 2
  MaxFaults = 2
INVARIANTS
  OneAttemptPerRow
  OutcomeIsReal
  AppliedOnceUnlessMishap
PROPERTIES
  EventuallySettled
