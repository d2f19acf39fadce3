CONSTANTS
  a1 = a1 a2 = a2 a3 = a3 p1 = p1 p2 = p2 k1 = k1 NoKey = NoKey NoOrder = NoOrder
  Attempts = {a1, a2, a3}
  Products = {p1}
  Staff = {s1, s2}
  Want <- OneEach
  Opening <- LastUnit
  Key <- RetryKey
  Preorderable = {}
  Targets = {"confirmed", "completed", "cancelled"}
  CountTo = {0, 2}
  MaxCounts = 1
  Interference = {}
SPECIFICATION Spec
INVARIANTS  NoOversell
PROPERTIES KeepsPromise
CHECK_DEADLOCK FALSE
