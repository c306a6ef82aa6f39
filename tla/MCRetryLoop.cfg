SPECIFICATION FairSpec
CONSTANTS
  RawPolicies <- MCRawPolicies
  Unreadable = Unreadable
  None = None
  NotANumber = NotANumber
  JitterSteps = 3
  TimerMax = 20000
  MaxEdits = 2
INVARIANTS
  CallsMatchPolicy
  WaitWithinPolicy
PROPERTIES
  AnswerIsFinal
  ImplementsExecution
  Ends
CHECK_DEADLOCK FALSE
