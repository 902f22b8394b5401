SPECIFICATION Spec
CONSTANTS
  Slots = 2
  Pcs = 8
  Code <- SmallCode
  Fault = {2}
  Preds <- SmallPreds
  RasTop <- SmallTop
  FtqDepth = 3
  RqDepth = 2
  BootPc = 0
  SysTarget = 1
  JumpTargets = {4}
  CommitDelay = 4
  RetireHalf = TRUE
  MaxAlloc = 6
  MaxRedirect = 2
  NoData = NoData
  NoPc = NoPc
VIEW FetchView
PROPERTY PathDelivered
