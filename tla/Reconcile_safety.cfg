SPECIFICATION Spec
CONSTANTS
  Foreign = Foreign
  Ref = {r1}
  Lots = 2
  EchoesRef = FALSE
  Garbles = TRUE
  ResolvesBlocked = FALSE
  Stride = 4
  MaxSnap = 3
  MaxResolve = 2
  MaxCrash = 1
CHECK_DEADLOCK FALSE
INVARIANTS
  TypeOK
PROPERTIES
  NothingMissed
  FillsNeverRegress
  QuietBlockIsReal
  ResumedIsReconciled
