SPECIFICATION ClaimsSpec
CONSTANTS
  Claims = {c1, c2}
  Staff = {s1, s2}
  Expected = {0, 2}
  Rates = {1, 3}
  Typed = {0, 1}
  Closings = {"rejected", "cancelled"}
  Faults = {"refuse", "crash"}
INVARIANTS
  OwedIsChased
  NoHalfClaim
  CreditedInFull
