SPECIFICATION GraceSafetySpec
CONSTANTS
  o1 = o1
  o2 = o2
  i1 = i1
  None = None
  Conversations = {c1}
  Operators = {o1}
  Managers = {o1}
  Inboxes = {i1}
  Subscribed <- MCSubscribed
  Callers = {k1, s1}
  Clients = {k1}
  Sweepers = {s1}
  Setters = {p1}
  StatusRows = {r1}
  MaxCrashes = 0
  Workload = {"claim"}
PROPERTY ReleasesOnlyWhileOffline
CHECK_DEADLOCK FALSE
