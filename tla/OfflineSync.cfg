CONSTANTS
  Note = {n1}
  Cached = {n1}
  Temp = {}
  Mine = {m1}
  Theirs = {o1}
  Original = c0
  Flag = {locked}
  Lock = locked
  Rank <- MCRank
  NoRow = NoRow
  MaxVersion = 1
  MaxRemote = 1
  MaxFaults = 1
  MaxMarks = 2
SPECIFICATION Spec
INVARIANT CleanRowsAreStored
PROPERTIES OnlyAskedFlags WorkIsKept RemoteWorkIsKept QueueDrains
CHECK_DEADLOCK FALSE
