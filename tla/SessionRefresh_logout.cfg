SPECIFICATION SessionSpec
CONSTANTS
  Processes = {p1}
  Org = Org
  OrgAnswers = {Org}
  None = None
  Torn = Torn
  MaxTokens = 3
SYMMETRY ProcessSymmetry
CHECK_DEADLOCK FALSE
INVARIANTS LogoutSticks
