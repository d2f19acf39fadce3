CONSTANTS
  n1 = n1 n2 = n2 a1 = a1 r1 = r1 r2 = r2 q1 = q1
  Notices = {n1}
  Final = {n1}
  Alerts = {a1}
  Runs = {r1, r2}
  Requests = {q1}
  None = None
  Batch = 1
  MaxAttempts = 2
  Counted = 1
SPECIFICATION FairSpec
INVARIANTS ClaimedOnce DialsBounded SentOnce
PROPERTIES NothingStranded
CHECK_DEADLOCK FALSE
