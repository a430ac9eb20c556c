\* Three connections race with the observer, whose ticker is fair.
CONSTANTS
  Conns = {c1, c2, c3}
  MaxBytes = 2
SPECIFICATION LiveSpec
INVARIANTS
  TypeOK
  BytesAreAccounted
  CountedIsAnnounced
PROPERTY BytesAreCollected
CHECK_DEADLOCK FALSE
