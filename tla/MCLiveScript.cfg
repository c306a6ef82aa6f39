SPECIFICATION ScriptSpec
CONSTANTS
  b1 = b1
  b2 = b2
  del = del
  keep = keep
  near = near
  oper = oper
  BulkLogins <- MCBulk
  DeleteLogin = del
  KeepLogin = keep
  Neighbour = near
  Operator = oper
  PageSize = 3
  MaxFurther = 2
  Tenants <- MCTenants
  MaxMishaps = 3
  MaxEdits = 2
  Nil = Nil
CHECK_DEADLOCK FALSE
INVARIANTS
  ExitZeroMeansClean
  
  FailsForCause
