SPECIFICATION Spec
CONSTANTS
  Cpu = {c1, c2}
  Proc = {p1, p2}
  Idle = idle
  NPF = 2
  NPSWAP = 1
  UsegPages = 2
  ImgPages = 1
  Keys = {k1}
  NPSHM = 2
  Values = {0, 1}
  Zero = 0
SYMMETRY Symmetry
INVARIANTS
  FramesAccounted
  TlbMapsOwnFrames
  OwnMemory
CHECK_DEADLOCK FALSE
