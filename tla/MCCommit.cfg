SPECIFICATION FairSpec
CONSTANTS
  Width = 2
  RetireWidth = 2
  NumRob = 3
  NumSq = 1
  Kind <- AllKind
  Succ <- AllSucc
  Targets <- AllTargets
  BootPcs = {3, 11, 18}
  Vector = 1
  IrqLevels <- AllIrqs
  NoPc = NoPc
  NoTrap = NoTrap
  NoIdx = NoIdx
INVARIANTS
  PreciseBoundary
  SyncDrained
  DirtyUpdateOwned
  HeuOwnsHead
PROPERTIES
  StaleLoadReplayed
  BlockLifted
  ImplementsArchMachine
