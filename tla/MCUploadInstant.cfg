SPECIFICATION Spec
CONSTANTS
  s1 = s1
  s2 = s2
  s3 = s3
  n1 = n1
  n2 = n2
  h1 = h1
  h2 = h2
  i1 = i1
  i2 = i2
  i3 = i3
  i4 = i4
  i5 = i5
  None = None
  Session = {s1}
  Name = {n1}
  Hash = {h1}
  Size <- OneSize
  NamesOf <- SharedName
  Threshold = 1
  MaxRow = 1
  Inode = {i1, i2, i3, i4, i5}
  Worlds <- Overwriting
INVARIANTS
  InstantUploadHasFile
