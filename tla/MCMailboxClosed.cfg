\* Closing and opening again before the woken processes run.
SPECIFICATION Spec
CONSTANTS
  Proc = {p1, p2}
  NoPid = NoPid
  MaxLen = 2
  Lengths = {1, 2}
PROPERTY ClosedMeansError
