SPECIFICATION Spec
CONSTANTS
  a = a  b = b  sw = sw  lib = lib  chunk = chunk  inpage = inpage
  spaced = spaced  quoted = quoted  d1 = d1  d2 = d2
  Up = Up  Dot = Dot  Page = Page  None = None
  Ids <- TwoIds
  Width = 2
  Segments <- Names
  Encoded <- Quoted
  Dirs = {d1, d2}
  Packages <- FourPackages
  FirstDisk <- TwoDirs
  Refs <- SomeRefs
  Wanted <- SomeWanted
  Listeners = {x1, x2}
SYMMETRY SameListeners
INVARIANT OwnPackage
INVARIANT WorkerFindsItsFiles
INVARIANT PagesGetDeclared
INVARIANT InstalledHeard
