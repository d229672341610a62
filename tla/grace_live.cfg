SPECIFICATION GraceSpec
CONSTANTS
  o1 = o1
  o2 = o2
  i1 = i1
  None = None
  Conversations = {c1}
  Operators = {o1}
  Managers = {o1}
  Inboxes = {i1}
  Subscribed <- MCSubscribed
  Callers = {k1, s1, s2}
  Clients = {k1}
  Sweepers = {s1, s2}
  Setters = {p1}
  StatusRows = {r1}
  MaxCrashes = 1
  Workload = {"claim", "metadata"}
PROPERTIES NotStuck ExpiredIsProcessed WritesAreWhatWasChecked ImplementsLifecycle
CHECK_DEADLOCK FALSE
