SPECIFICATION Spec
CONSTANTS
  empty = empty  one = one
  Savers = {s1, s2}
  Rows = {empty, one}
  NoRows = empty
  Inodes = {n1, n2, n3}
  First <- SomeFiles
  Refused = Refused
  None = None  Torn = Torn
SYMMETRY Symmetry
INVARIANT FileWhole
PROPERTY Implements
