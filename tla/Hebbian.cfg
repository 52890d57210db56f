CONSTANTS
  Skill = {a, b}
  Start = 5
  Floor = 4
  Ceiling = 8
  Reward = 1
  Penalty = 1
  Threshold = 2
  RoundedFrom = 8
  MaxEvents = 8
  MaxSlack = 2
SPECIFICATION Spec
INVARIANTS TypeOK Accounted LossBounded Earned
PROPERTIES BumpIsFelt
