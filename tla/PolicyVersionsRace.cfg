CONSTANTS
  Worker = {w1, w2}
  Scope = {s1}
  NoScope = NoScope
  MaxAudit = 3
SPECIFICATION Spec
PROPERTIES SupersedesAnyPreviouslyActive
