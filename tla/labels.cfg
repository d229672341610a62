SPECIFICATION LabelSpec
CONSTANTS
  None = None
  Callers = {k1, k2}
  Inboxes = {i1, i2}
  Phones = {p1, p2}
  LabelIds = {l1, l2}
  Names = {n1, n2}
  Conversations = {c1}
SYMMETRY Interchangeable
INVARIANTS LabelTypeOK OneInboxPerPhone OneLabelPerName LinksAreInScope
PROPERTIES DeletedLabelsAreFrozen ImplementsCatalogue
