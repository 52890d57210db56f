CONSTANTS
  Run = {r1, r2}
  NoRun = NoRun
  Partial = Partial
  Judged = Judged
  Score = {0, 1, 2}
  Word = {x}
  MaxLength = 3
  Scale = 6
  MaxCandidates = 2
  MaxTime = 1
SPECIFICATION Spec
INVARIANTS ResultIsFirstBest  HeuristicKeepsBaseline
SYMMETRY RunSymmetry
CHECK_DEADLOCK FALSE
