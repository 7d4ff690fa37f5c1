SPECIFICATION ApiSpec
CONSTANTS
  Request = {r1, r2, r3}
  acme = acme
  b1 = b1
  b2 = b2
  Slug <- MCSlug
  Body <- MCBody
  IfMatch = {1}
  Key = {k1}
  Workload <- MCWorkload
  Malformed = Malformed
  None = None
  Faults = TRUE
INVARIANTS
  AtMostOnce
  ReplaysAreTrue
PROPERTIES
  EveryRequestReplied
CHECK_DEADLOCK FALSE
