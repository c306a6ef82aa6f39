CONSTANTS
  ann = ann
  bob = bob
  op = op
  admins = admins
  users = users
  far = far
  w1 = w1
  w2 = w2
  Users = {ann, bob, op}
  Groups = {admins, users, far}
  Unlisted = {far}
  Missing = Missing
  Malformed = Malformed
  Operator = op
  None = None
  Workers = {w1, w2}
  PollAttempts = 1
  MaxFaults = 2
CONSTANT Deployments <- MCDeployments
SPECIFICATION FairSpec
CHECK_DEADLOCK FALSE
INVARIANTS
  
  OnlyAsked
  AllOrNothing
  RefusedForCause
  SessionRenewed
PROPERTY
  Settles
