\* Progress under fair timers, with processes that sleep for short times.
SPECIFICATION FairSpec
CONSTANTS
  NCPU = 2
  PidMax = 3
  TidMax = 0
  PcbMax = 5
  Resource = {}
  Nic = {}
  Syscalls = {"exit", "sleep", "fork"}
PROPERTIES ExitedIsReaped
