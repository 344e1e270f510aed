SPECIFICATION FairSpec
CONSTANTS
  Skills = {"s1"}
  Requests = {q1, q2, q3}
  Digests = {"d1", "d2"}
  Verdicts = {"accept", "deny"}
  HasPolicyEvaluator = TRUE
  None = None
  NoAnswer = NoAnswer
  MaxChanges = 2
CHECK_DEADLOCK FALSE
INVARIANTS OneVerificationPerSkill VerifiedIsOneVersion
PROPERTIES ImplementsTrustTiers CloseEndsVerifications
