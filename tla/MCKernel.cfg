SPECIFICATION Spec
CONSTANTS
  Cpu = {c0, c1}
  User = {u2, u3}
  Pcs = 2
  Process = {"p2", "p3"}
  RawNumbers <- MCRaw
  KSL = 16
  EU = 3
  Requests = {3, 4, 6}
  NALLOC = 5
  MaxUnits = 15
  Units = {2, 3, 6}
  Writer = {"p2"}
  SCREEN_WIDTH = 3
  SCREEN_HEIGHT = 2
  SCR_WRITE_MAX = 2
  Glyph = {"a"}
  Regions <- MCRegions
  MaxTorn = 1
  QS = 4
  Lens = {2, 3, 5}
  Letter = {"a", "b"}
  SECTOR_SIZE = 4
  PAGE_SIZE = 4
  ReadMax = 3
  NTasks = 2
  BootLayouts <- MCBoot
  KernelLayouts <- MCKernels
  TaskLayouts <- MCTasks
  NPT = 5
INVARIANTS
  KernelExclusive CallsAnswered HeapSound UheapSound
  ScreenSound LineAsTyped LoadedWhole BootSafe
CHECK_DEADLOCK FALSE
