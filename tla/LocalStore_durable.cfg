SPECIFICATION Spec
CONSTANTS
  k1 = k1  k2 = k2  v1 = v1  t1 = t1  t2 = t2
  h1 = h1  n1 = n1  n2 = n2
  Absent = Absent  None = None  Ok = Ok  Failed = Failed  Blank = Blank  Torn = Torn
  Keys = {k1, k2}  Values = {v1}  Callers = {t1, t2}
  Handles = {h1}  Inodes = {n1, n2}
  Requests <- SomeRequests
  Faults = TRUE
  Overlap = FALSE
INVARIANT TypeOK
INVARIANT FileWhole
PROPERTY Implements
