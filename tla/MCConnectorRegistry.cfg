SPECIFICATION FairSpec
CONSTANTS
  Nodes = {n1}
  Requests = {r1, r2}
  Systems = {s1, s2}
  None = None
  Stamps = {1, 2}
  MaxCommits = 3
  MaxFaults = 1
INVARIANTS
  AnsweredIsInstalled
  WaitersHaveReload
PROPERTIES
  NeverBack
  CurrentUnlessMissed
