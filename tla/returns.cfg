SPECIFICATION Spec
CONSTANTS
  a1 = a1
  a2 = a2
  a3 = a3
  a4 = a4
  shirt = shirt
  Acts = {a1, a2, a3, a4}
  Items <- One
  Bought <- TwoOfOne
  Total = 2
  Amounts = {1, 2}
  Card = TRUE
  NoAct = NoAct
  MaxDeaths = 1
  Interference = {"crash", "refused", "webhook"}
SYMMETRY Symmetry
CHECK_DEADLOCK FALSE
INVARIANTS
  
  PaidOutOnce
  PayStatusFollows
  ReturnedIsOnShelf
