SPECIFICATION Spec
CONSTANTS
  Request = {r1, r2, r3, r4}
  Slug = {acme}
  Body = {b1, b2}
  IfMatch = {1, 2}
  Malformed = Malformed
  None = None
  Faults = TRUE
SYMMETRY Symmetry
INVARIANTS
  HistoryContiguous
  EveryWriteAnnouncedOnce
  NoLostUpdate
  AcknowledgedIsWritten
PROPERTIES
  ImplementsHistory
CHECK_DEADLOCK FALSE
