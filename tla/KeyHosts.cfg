SPECIFICATION Spec
CONSTANTS
  Audits = {a1}
  Dlqs = {d1}
  Targets = {t1}
  Hosts = {h1}
  Keys = {k1, k2, k3}
  FirstKey = k1
  Nodes = {n1}
  None = None
  MaxWrites = 2
  MaxChoices = 2
  MaxFaults = 2
INVARIANT
  HostsRotated
