SPECIFICATION SessionsSpec
CONSTANTS
  Operators = {o1, o2}
  MaxAttempts = 3
  MaxRestarts = 1
  Roles = {r1}
  Editors = {e1}
  Visitors = {v1}
  None = None
INVARIANTS QueueTypeOK NoLostWakeup EachJobOnce OperatorsTypeOK SessionsTypeOK AnsweredTokensWork
PROPERTIES ImplementsDeferredJobs NewOperatorGetsStatus RemovedOperatorsStay
CHECK_DEADLOCK FALSE
