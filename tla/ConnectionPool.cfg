CONSTANTS
  Worker = {w1, w2, w3, w4}
  PoolSize = 2
  MaxUses = 2
SPECIFICATION FairSpec
INVARIANTS Conserved OnlyBatchesStall
PROPERTIES RequestsEnd
