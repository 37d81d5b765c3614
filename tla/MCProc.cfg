SPECIFICATION Spec
CONSTANTS
  NCPU = 2
  PidMax = 3
  TidMax = 1
  PcbMax = 5
  Resource = {"mutex"}
INVARIANTS
  ProcInv TableFits
PROPERTY KilledStaysKilled
