SPECIFICATION Spec
CONSTANTS
  s1 = s1
  s2 = s2
  r1 = r1
  r2 = r2
  r3 = r3
  NoRef = NoRef
  Signal = {s1, s2}
  Ref = {r1, r2}
  Attr <- EqualAttr
  EchoesRef = FALSE
  ReportsAttr = TRUE
  Moves = {}
  MaxLog = 3
  MaxKey = 1
  MaxCrash = 1
CHECK_DEADLOCK FALSE
INVARIANTS
  AdoptedIdIsOwn
