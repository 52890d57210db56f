CONSTANTS
  Worker = {w1, w2}
  Key = {j1, j2}
  Body = {b1}
  NoKey = NoKey
  NoBody = NoBody
  NoWorker = NoWorker
  TTL = 1
  MaxTime = 1
  IntakeAnswers = {"2xx", "3xx", "4xx", "5xx"}
  MaxFaults = 3
SPECIFICATION JobsFairSpec
INVARIANTS AcceptedIsDelivered
PROPERTIES JobsComplete
CHECK_DEADLOCK FALSE
