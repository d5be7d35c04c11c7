SPECIFICATION Spec
CONSTANTS
  main = main  u1 = u1  u2 = u2  about = about  e1 = e1  e2 = e2
  i1 = i1  i2 = i2  f1 = f1  f2 = f2  f3 = f3  f4 = f4  gone = gone
  Labels = {main}  BgLabels = {}
  Urls = {u1, u2, about}  Skipped = {about}
  Exts = {e1, e2}  Ids = {i1, i2}
  Files = {f1, f2, f3, f4, gone}  Missing = {gone}
  Rules <- SomeRules  Batches <- SomeBatches
  None = None
INVARIANT PrimedFirst
INVARIANT ProvidersFirst
INVARIANT EachOnce
INVARIANT AllInjected
PROPERTY IdentityKept
