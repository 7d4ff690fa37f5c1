SPECIFICATION Spec
CONSTANTS
  Request = {r1, r2, r3}
  Slug = {acme}
  Body = {b1, b2}
  IfMatch = {1}
  Malformed = Malformed
  None = None
  Faults = FALSE
INVARIANT
  RaceLoserGets412
CHECK_DEADLOCK FALSE
