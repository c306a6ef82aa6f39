CONSTANTS
  s1 = s1
  s2 = s2
  h1 = h1
  h2 = h2
  h3 = h3
  p1 = p1
  p2 = p2
  g1 = g1
  g2 = g2
  c1 = c1
  c2 = c2
  c3 = c3
  dev = dev
  ops = ops
  staff = staff
  a1 = a1
  a2 = a2
  Roles = {dev, ops}
  IdpGroups = {staff}
  Types = {"linux", "zabbix"}
  None = None
  Gone = Gone
  Keep = Keep
  Systems = {s1, s2}
  Hosts = {h1, h2, h3}
  Profiles = {p1, p2}
  ServerGroups = {g1, g2}
  Codes = {c1, c2, c3}
  Admins = {a1, a2}
  MaxFaults = 1
CONSTANTS
  Scenarios <- MCScenarios
  RoleEdits <- MCRoleEdits
SPECIFICATION FairSpec
CHECK_DEADLOCK FALSE
INVARIANTS
  TypeOK
  SameTarget
  AsOneAsked
  DecisionHolds
  FleetOkMeansAll
PROPERTY
  FleetSettles
