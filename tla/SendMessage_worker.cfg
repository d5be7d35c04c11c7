SPECIFICATION FairSpec
CONSTANTS
  r1 = r1  r2 = r2  r3 = r3  l1 = l1  l2 = l2  None = None
  Reqs = {r1, r2, r3}  FromWorker = {r3}  Listeners = {l1, l2}  MaxPages = 2
INVARIANT PendingMatchesSenders
INVARIANT OneReply
PROPERTY Settles
CHECK_DEADLOCK FALSE
