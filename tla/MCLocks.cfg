SPECIFICATION Spec
CONSTANTS
  Proc = {p1, p2, p3}
  NoPid = NoPid
  Initial = {1}
  MaxDebt = 2
  MaxCredit = 1
  Goals = {2}
  MaxLen = 2
  Lengths = {1, 2}
  Scenarios <- MCScenarios
SYMMETRY Perms
INVARIANTS MutexInv SemInv BarrierInv MailboxInv
PROPERTIES StrandedOnlyByKill ReceiverStrandedOnlyByKill ImplementsFifo
