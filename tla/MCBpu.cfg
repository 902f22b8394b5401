SPECIFICATION Spec
CONSTANTS
  RegionBits = 3
  Slots = 2
  PcBits = 4
  Tables = 2
  BaseBits = 1
  IdxBits = 1
  TagBits = 2
  CtrBits = 2
  UsefulBits = 1
  SetBits = 1
  Ways = 2
  BtbTagBits = 2
  Entries = 2
  UbtbTagBits = 2
  Depth = 2
  EventBits = 2
  HistLen <- SmallHistLen
  FoldShift = 1
  FtqDepth = 3
  TrainDepth = 2
  BootPc = 0
  SysTarget = 2
  Program <- SmallProgram
  Warmup <- SmallWarmup
  MaxAlloc = 4
  MaxCommit = 3
  MaxRedirect = 2
  NoPc = NoPc
INVARIANTS
  ResponsesExact
  RasTopTrusted
  PathFollowed
  SlowMeetsRegion
  HandoverKept
PROPERTIES
  TageImplementsModel
  BtbImplementsModel
  UbtbImplementsModel
  TrainDelayedOnce
