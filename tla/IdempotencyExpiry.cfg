CONSTANTS
  Worker = {w1}
  Key = {k1}
  Body = {b1}
  NoKey = NoKey
  NoBody = NoBody
  TTL = 2
  MaxTime = 4
SPECIFICATION Spec
PROPERTIES StoredForReplay
