CONSTANTS
  Note = {n1}
  Cached = {n1}
  Temp = {}
  Mine = {m1}
  Theirs = {o1}
  Original = c0
  Flag = {locked}
  Lock = locked
  Rank <- MCRank
  NoRow = NoRow
  MaxVersion = 2
  MaxRemote = 1
  MaxFaults = 0
  MaxMarks = 1
SPECIFICATION Spec
PROPERTY EditsOutliveRemoval
CHECK_DEADLOCK FALSE
