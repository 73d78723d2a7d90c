SPECIFICATION Spec
CONSTANTS
  s1 = s1
  s2 = s2
  s3 = s3
  n1 = n1
  n2 = n2
  h1 = h1
  h2 = h2
  i1 = i1
  i2 = i2
  i3 = i3
  i4 = i4
  i5 = i5
  None = None
  Session = {s1, s2}
  Name = {n1, n2}
  Hash = {h1, h2}
  Size <- EmptyAndTwo
  NamesOf <- OwnNames
  Threshold = 1
  MaxRow = 2
  Inode = {i1, i2, i3, i4, i5}
  Worlds <- CarefulOrNot
SYMMETRY Exchange
INVARIANTS StoreConsistent CompleteHasEntity ResumeIsSafe
