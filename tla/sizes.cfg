SPECIFICATION Spec
CONSTANTS
  o1 = o1
  o2 = o2
  o3 = o3
  o4 = o4
  small = small
  large = large
  Orders <- Four
  Sizes <- Both
  NoSize = NoSize
  Want <- FourOrders
  Deliveries <- Arrivals
  Figures = {0, 1, 3}
  Parcels = {1}
  MaxMoves = 3
CHECK_DEADLOCK FALSE
INVARIANTS
  NoSizeOversold
  NothingOversold
PROPERTIES
  KeepsShelf
