SPECIFICATION Spec
CONSTANTS
  Width = 2
  RetireWidth = 2
  NumArch = 3
  NumPhys = 5
  NumRob = 3
  NumTags = 2
  HasZeroReg = TRUE
  Groups <- IntGroups
  NoTag = NoTag
  NoDep = NoDep
  NoEntry = NoEntry
INVARIANTS RegisterPartition CommittedPartition MaskIsOlderBranches CheckpointRestorable SourceIsNearestWriter
PROPERTIES FusedPairAtomic ImplementsProgramWindow
VIEW LiveView
