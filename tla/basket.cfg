SPECIFICATION BasketSpec
CONSTANTS
  Items = {i1}
  Tabs = {t1}
  MaxQty = 3
  MaxKeys = 2
  Interference = {"lost"}
INVARIANTS
  BasketTypeOK
  OneOrderPerBasket
  BoughtIsBasket
CHECK_DEADLOCK FALSE
