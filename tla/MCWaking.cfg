SPECIFICATION WakingSpec
CONSTANTS
  Proc = {p1, p2, p3}
  NoPid = NoPid
  Initial = {1}
  MaxDebt = 2
  MaxCredit = 1
  Goals = {2}
  MaxLen = 2
  Lengths = {1, 2}
  Scenarios <- MCScenarios
  NicProc = {"p1", "p2"}
  TXDESCS = 3
  RXDESCS = 3
  SendCounts = {1, 2}
  RecvCounts = {1, 2}
  Roles <- MCRoles
INVARIANTS RingsSound
PROPERTIES WaitersAreWoken NobodyMissesTheCard
