SPECIFICATION FairSpec
CONSTANTS
  p1 = p1  m1 = m1  m2 = m2  None = None
  PortIds = {p1}  Msgs = {m1, m2}  MaxPages = 2
INVARIANT TypeOK
INVARIANT AtMostOnce
INVARIANT OpenOpenerIsRouted
PROPERTY NoRevival
PROPERTY CloseReachesOpener
PROPERTY ConnectSettles
CHECK_DEADLOCK FALSE
