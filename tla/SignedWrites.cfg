CONSTANTS
  Worker = {w1, w2}
  Key = {k1}
  Body = {b1, b2}
  NoKey = NoKey
  NoBody = NoBody
  NoRequest = NoRequest
  MaxAge = 2
  FutureSkew = 1
  MaxWait = 1
  Drift = {0, 2}
  MaxSigned = 2
  TTL = 5
  MaxTime = 6
SPECIFICATION SignedSpec
INVARIANTS TypeOK PromiseKept RunsOnce ServerErrorReRuns RowOutlivesWindow
