CONSTANTS
  p1 = p1 p2 = p2 h1 = h1 cron = cron
  Payments = {p1}
  Handlers = {h1, cron}
  Cron = cron
  Desk = {"refund", "cancel", "complete"}
  Words = {"authorized", "captured", "short", "silent", "cancelled"}
  MaxPerRun = 1
  MaxCrashes = 1
  Interference = {"overlap"}
  ByHand = {"deposit"}
  RefundReply = {"refunded", "captured"}
  VoidReply = {"cancelled", "captured", "pending"}
SPECIFICATION Spec
INVARIANTS NeverAhead PaidMeansTaken
CHECK_DEADLOCK FALSE
