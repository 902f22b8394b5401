SPECIFICATION Spec
CONSTANTS
  NumRob = 3
  NumLq = 3
  NumSq = 2
  RetireWidth = 1
  Fifo = 2
  Gens = 2
  Prog <- ReuseProg
  Succ <- ReuseSucc
  Alt <- ReuseSucc
  Starts = {1}
  Byte = {0, 1}
  Line = {1}
  Ways = 1
  Warm = {1}
  Grants = {"M"}
  MaxFlush = 0
  NoRow = NoRow
  NoLine = NoLine
INVARIANTS
  NoLateResult
