SPECIFICATION Spec
CONSTANTS
  Worker = {w1, w2}
  Generation = {1, 2}
  MaxAttempts = 2
  MaxFailures = 3
SYMMETRY Symmetry
INVARIANTS
  StatusCoherent
  NoFailureLost
PROPERTIES
  DeletedIsFinal
