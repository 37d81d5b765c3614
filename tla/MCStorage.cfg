SPECIFICATION StorageSpec
CONSTANTS
  Proc = {p1, p2}
  Name = {a, b}
  NINODE = 4
  NBlocks = 4
  INODE_NDPTR = 1
  PtrsPerBlock = 1
  DENT_PER_BLOCK = 3
  OFILE_MAX = 1
  NLINK_MAX = 2
  FDirect = 1
  FPtrsPerBlock = 2
  BLOCK_SIZE = 2
  FBlocks = 7
  MaxPos = 9
  MaxLen = 3
  MaxOther = 1
  CBlocks = 4
  CacheSlots = 3
  SectorBits = 2
  BitSectors = 2
  NInodes = 3
  InodesPerSector = 2
  Value = {"v"}
  Old = "old"
  Root = "root"
  NoSuper = "none"
SYMMETRY Perms
INVARIANTS TreeSound InUseIsKept BlocksAccounted ReadsBack CacheCoherent
PROPERTIES ImplementsDisk
CHECK_DEADLOCK FALSE
