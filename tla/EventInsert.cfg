CONSTANTS
  e1 = e1
  e2 = e2
  e3 = e3
  b1 = b1
  b2 = b2
  b3 = b3
  Worker = {w1, w2, w3}
  Event <- MCEvent
  Batch <- MCBatch
  NoBatch = NoBatch
  Order <- MCOrder
SPECIFICATION FairSpec
INVARIANTS TypeOK InsertedAddsUp
PROPERTIES ImplementsTable CallsEnd
