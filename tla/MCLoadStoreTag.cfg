SPECIFICATION Spec
CONSTANTS
  NumRob = 4
  NumLq = 2
  NumSq = 1
  RetireWidth = 1
  Fifo = 2
  Gens = 2
  Prog <- TagProg
  Succ <- TagSucc
  Alt <- TagAlt
  Starts = {1}
  Byte = {0, 1}
  Line = {1}
  Ways = 1
  Warm = {1}
  Grants = {"M"}
  MaxFlush = 0
  NoRow = NoRow
  NoLine = NoLine
INVARIANTS
  LoadsFollowRob
