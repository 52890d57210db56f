CONSTANTS
  s1 = s1
  s2 = s2
  e1 = e1
  e2 = e2
  e3 = e3
  e4 = e4
  b1 = b1
  b2 = b2
  b3 = b3
  i1 = i1
  i2 = i2
  Worker = {w1, w2}
  Scope <- MCScope
  Event <- MCEvent
  Batch <- MCBatch
  BatchId = {i1, i2}
  NoBatch = NoBatch
  NoScope = NoScope
  Payload <- MCPayload
  IdOf <- MCIdOf
  Threshold = 2
  MaxBatch = 4
  MaxDeliveries = 4
SPECIFICATION Spec
SYMMETRY Symmetry
INVARIANTS LearnedIsRecorded AnsweredIsLearned LearnedOncePerEntry
CHECK_DEADLOCK FALSE
