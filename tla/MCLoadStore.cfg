SPECIFICATION FairSpec
CONSTANTS
  NumRob = 4
  NumLq = 3
  NumSq = 2
  RetireWidth = 1
  Fifo = 2
  Gens = 2
  Prog <- AllProg
  Succ <- AllSucc
  Alt <- AllAlt
  Starts = {1, 6, 9}
  Byte = {0, 1}
  Line = {1, 2}
  Ways = 2
  Warm = {}
  Grants = {"S"}
  MaxFlush = 1
  NoRow = NoRow
  NoLine = NoLine
INVARIANTS
  LsTypeOK
  LoadValueInOrder
  LoadsFollowRob
  StoresFollowRob
  ResultFindsOwner
PROPERTIES
  StoresOnce
  ProgramEnds
