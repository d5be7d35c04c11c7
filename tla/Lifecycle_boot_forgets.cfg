SPECIFICATION Spec
CONSTANTS
  i1 = i1  i2 = i2  d1 = d1  d2 = d2  o1 = o1  o2 = o2  o3 = o3
  c1 = c1  c2 = c2  l1 = l1  l2 = l2  None = None
  Ids = {i1, i2}  Dirs = {d1, d2}  Labels = {l1, l2}  Objs = {o1, o2, o3}
  Callers = {c1}  MaxBusy = 1
  LabelOf <- OwnLabels
  Ops = {"install", "disable", "crash"}
  Manifests <- Workers
  FirstDisk <- TwoDisks
  Registering = {}
  SlowClose = FALSE
SYMMETRY Symmetry
PROPERTY StoreKeepsInstalled
CHECK_DEADLOCK FALSE
