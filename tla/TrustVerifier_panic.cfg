SPECIFICATION Spec
CONSTANTS
  Skills = {"s1"}
  Requests = {q1}
  Digests = {"d1"}
  Verdicts = {"accept"}
  HasPolicyEvaluator = FALSE
  None = None
  NoAnswer = NoAnswer
  MaxChanges = 0
CHECK_DEADLOCK FALSE
INVARIANTS NoPanic
