CONSTANTS
  p1 = p1 p2 = p2 h1 = h1 cron = cron
  Payments = {p1, p2}
  Handlers = {h1, cron}
  Cron = cron
  Desk = {}
  Words = {"authorized", "captured"}
  MaxPerRun = 1
  MaxCrashes = 1
  Interference = {}
  ByHand = {}
  RefundReply = {"refunded", "captured"}
  VoidReply = {"cancelled", "captured"}
SPECIFICATION FairSpec
PROPERTIES KeepsFlow CaptureReachesOrder
CHECK_DEADLOCK FALSE
