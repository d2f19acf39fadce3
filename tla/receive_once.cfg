CONSTANTS
  i1 = i1 i2 = i2 shirt = shirt mug = mug S = S M = M
  Runs = {r1, r2}
  Filed = Filed
  Pos = {i1, i2}
  Names = {shirt, mug}
  Labels = {S, M}
  NoLabel = NoLabel
  Orders <- Four
  Catalogue = 1
  Variants <- HasS
SPECIFICATION Spec
INVARIANTS  LandedOnce ReceiptIsComplete LandedHasDate
PROPERTIES LinesStayClosed
SYMMETRY AnyRun
CHECK_DEADLOCK FALSE
