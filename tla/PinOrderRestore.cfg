CONSTANTS
  Note = {n1, n2, n3}
  Toggle = {t1}
  MaxNames = 2
  Depth = 2
  a1 = a1
  a2 = a2
  Author = {a1, a2}
  Page <- OneNote
  Images = 3
  Upload = {u1, u2}
  Quota = 1
  Batch = 2
  Chunk = 1
  MaxRefs = 1
  MaxFaults = 1
  Person = {p1, p2}
  Memo = {m1, m2}
  TagId = {g1, g2}
  TagName = {w1, w2}
  Link = {l1}
  Title <- NoteTitles
  Picture = {i1}
  MaxListed = 3
SPECIFICATION Spec
INVARIANT PositionsDiffer
CHECK_DEADLOCK FALSE
