SPECIFICATION ScopeSpec
CONSTANTS
  o1 = o1
  o2 = o2
  i1 = i1
  i2 = i2
  None = None
  Conversations = {c1}
  Operators = {o1, o2}
  Managers = {o2}
  Inboxes = {i1, i2}
  Subscribed <- MCSubscribed
  MaxRows = 2
  Callers = {k1, k2}
  Workload = {"allocate", "claim", "resolve", "deallocate", "reassign", "move", "upsert", "metadata"}
SYMMETRY CallerSymmetry
CONSTRAINT Unraced
INVARIANTS TypeOK RowsWhole IInv AllocatedInScope ScopeInv
PROPERTIES WritesAreWhatWasChecked ImplementsLifecycle
CHECK_DEADLOCK FALSE
