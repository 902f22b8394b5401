SPECIFICATION Spec
CONSTANTS
  Width = 2
  RetireWidth = 2
  NumRob = 3
  NumSq = 2
  Kind <- MmioIrqKind
  Succ <- MmioIrqSucc
  Targets <- MmioIrqTargets
  BootPcs = {1}
  Vector = 4
  IrqLevels <- MmioIrqs
  NoPc = NoPc
  NoTrap = NoTrap
  NoIdx = NoIdx
INVARIANTS
  InterruptNotReplaying
