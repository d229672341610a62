SPECIFICATION PrioritySpec
CONSTANTS
  None = None
  NotFinite = NotFinite
  Conversations = {c1, c2, c3, c4}
  Window = 3
  Configs <- MCConfigs
  MaxTime = 2
  MaxCount = 2
SYMMETRY ConversationSymmetry
INVARIANTS PriorityTypeOK ChosenIsUndominated SomethingIsChosen ScoreIsAFraction
PROPERTIES TimeKeepsOrder
CHECK_DEADLOCK FALSE
