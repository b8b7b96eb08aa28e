SPECIFICATION Spec
CONSTANTS
  Emails = {"ann@", "bob@"}
  Subs = {"g1", "g2"}
  Sessions = {1}
  MaxTokens = 3
  Tabs = {"t1", "t2"}
INVARIANTS AccountIsReachable RotationIsLinear HeldTokenWorks
CHECK_DEADLOCK FALSE
