CONSTANTS
  Tabs = {t1, t2}
  admin = admin
  ivan = ivan
  Users = {admin, ivan}
  Configs <- MCConfigs
  SessionTtl = 0
  StateTtl = 0
  MaxTime = 1
  MaxSessions = 2
  MaxFlows = 2
  MaxMishaps = 1
  Nobody = Nobody
  None = None
  Same = Same
SPECIFICATION Spec
SYMMETRY MCSymmetry
INVARIANTS ActsAsShown OpenedOnce RefusedForCause
CHECK_DEADLOCK FALSE
