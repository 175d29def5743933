\* Three writes of two users, a pipeline of two.
SPECIFICATION Spec
CONSTANTS
  Writes = {w1, w2, w3}
  Users = {u1, u2}
  MaxPending = 2
  Calls = {"disable", "user", "crash", "wait"}
SYMMETRY WriteSymmetry
INVARIANTS
  PipelineIsHeadOfQueue
  StreamFitsPipeline
  CallersInformed
  NothingLost
PROPERTIES
  WaitersSeeAllDone
  ImplementsWriteQueue
