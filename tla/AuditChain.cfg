CONSTANTS
  Writer = {w1, w2}
  Entry = {a, b}
  None = None
  MaxIds = 5
  MaxMembers = 3
SPECIFICATION Spec
INVARIANTS ChainUnbroken BatchesWhole BatchVerifies RefusedAfterLostCommit
CHECK_DEADLOCK FALSE
