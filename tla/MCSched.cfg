\* Life and death of processes and threads, with fair timers.
SPECIFICATION FairSpec
CONSTANTS
  NCPU = 2
  PidMax = 3
  TidMax = 1
  PcbMax = 5
  Resource = {}
  Nic = {}
  Syscalls = {"exit", "kill", "thread_exit", "thread_create", "thread_wait", "waitpid", "fork"}
INVARIANTS SchedInv
PROPERTIES ImplementsProc ExitedIsReaped ReadyRuns
