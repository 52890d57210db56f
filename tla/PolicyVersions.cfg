CONSTANTS
  Worker = {w1, w2}
  Scope = {s1}
  NoScope = NoScope
  MaxAudit = 4
SPECIFICATION FairSpec
INVARIANTS TypeOK PointerNamesActive SoleActive EveryVersionAudited LearningAccumulates PointerIsNewest
PROPERTIES StatusMovesForward ImplementsRegister PassesEnd
