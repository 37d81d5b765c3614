\* Blocking: sleep, a lock, a queue of the card, CPU affinity, and kills that let waiters go.
SPECIFICATION Spec
CONSTANTS
  NCPU = 2
  PidMax = 4
  TidMax = 0
  PcbMax = 5
  Resource = {"nic", "lock"}
  Nic = {"nic"}
  Syscalls = {"exit", "kill", "sleep", "block", "exec", "taskset"}
CONSTRAINT TwoOrThree
INVARIANTS SchedInv
PROPERTIES ImplementsProc AffinityRespected DueAreWoken
