SPECIFICATION FairSpec
CONSTANTS
  Queries = {q1, q2}
  Limbo = {l1, l2}
  MaxFailures = 1
  Calls = {"stop", "enable", "disable"}
INVARIANTS
  NeededIsStarted
  AskedForTargets
  AssertionsHold
PROPERTIES
  OnlineStateDecided
  StallEndsWithAttempt
