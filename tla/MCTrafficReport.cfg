\* Two services, two URLs, answers and ledger writes that fail, one restart.
CONSTANTS
  Services = {s1, s2}
  Urls = 2
  MaxBytes = 2
  MaxPosts = 2
  MaxCrashes = 1
SPECIFICATION Spec
INVARIANTS
  TypeOK
  NoUndercount
  LedgersAgree
  NoOvercount
SYMMETRY Symmetry
CHECK_DEADLOCK FALSE
