SPECIFICATION ServiceSpec
CONSTANTS
  o1 = o1
  o2 = o2
  i1 = i1
  None = None
  Conversations = {c1}
  Operators = {o1, o2}
  Managers = {o2}
  Inboxes = {i1}
  Subscribed <- MCSubscribed
  Callers = {k1, s1}
  Clients = {k1}
  Sweepers = {s1}
  Setters = {p1, loop}
  Loop = loop
  Newcomers = {o1}
  Watched = {o1}
  MaxAttempts = 2
  MaxRestarts = 1
  StatusRows = {r1}
  MaxCrashes = 1
  MaxRows = 1
  Workload = {"claim", "reassign"}
CONSTRAINT OneFaultUnraced
VIEW WithoutFailed
INVARIANTS GraceTypeOK AvailableHasNoGrace OfflineHasGrace FirstStatusIsWhole ReleasesAreOfOffline AllocatedInScope
PROPERTIES StatusIsHisOwn
CHECK_DEADLOCK FALSE
