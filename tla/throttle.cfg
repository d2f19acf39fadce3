SPECIFICATION ThrottleSpec
CONSTANTS
  Callers = {c1, c2, c3}
  Instances = {i1, i2}
  Limit = 2
  Window = 2
  Lapses = {"outage", "forget"}
INVARIANTS
  SharedBinds
  LocalBinds
PROPERTIES
  RefusedForCause
  LockEnds
