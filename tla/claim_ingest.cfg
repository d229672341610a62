SPECIFICATION Spec
CONSTANTS
  o1 = o1
  o2 = o2
  i1 = i1
  i2 = i2
  None = None
  Conversations = {c1}
  Operators = {o1, o2}
  Managers = {o2}
  Inboxes = {i1, i2}
  Subscribed <- MCSubscribed
  Callers = {k1, k2}
  Workload = {"claim", "metadata"}
PROPERTY IngestKeepsLifecycle
CHECK_DEADLOCK FALSE
