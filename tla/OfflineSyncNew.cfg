CONSTANTS
  Note = {n1, n2, n3}
  Cached = {}
  Temp = {t1}
  Mine = {m1}
  Theirs = {o1}
  Original = c0
  Flag = {locked, starred}
  Lock = locked
  Rank <- MCRank
  NoRow = NoRow
  MaxVersion = 2
  MaxRemote = 1
  MaxFaults = 1
  MaxMarks = 1
SPECIFICATION Spec
INVARIANTS TypeOK CreatedOnce
PROPERTIES QueueDrains
CHECK_DEADLOCK FALSE
