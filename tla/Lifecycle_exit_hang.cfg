SPECIFICATION FairSpec
CONSTANTS
  i1 = i1  i2 = i2  d1 = d1  d2 = d2  o1 = o1  o2 = o2  o3 = o3
  c1 = c1  c2 = c2  l1 = l1  l2 = l2  None = None
  Ids = {i1}  Dirs = {d1}  Labels = {l1}  Objs = {o1}
  Callers = {c1}  MaxBusy = 1
  LabelOf <- OneLabel
  Ops = {"install", "exit"}
  Manifests <- Workers
  FirstDisk <- OneDisk
  Registering = {}
  SlowClose = FALSE
PROPERTY ExitCompletes
CHECK_DEADLOCK FALSE
