SPECIFICATION Spec
CONSTANTS
  Orders = {o1, o2}
  Late = {o2}
  Kinds = {"insert", "update", "delete", "return"}
  MaxVersion = 2
  MaxChanges = 3
  MaxFails = 1
INVARIANTS
  CurrentSawOrders
  CurrentCountsBook
  NeverOlderThanAsked
PROPERTIES
  CatchesUp
CHECK_DEADLOCK FALSE
