SPECIFICATION TextSpec
CONSTANTS
  a = a  b = b  A = A  Dot = Dot  Slash = Slash  Star = Star  Colon = Colon
  Chars = {a, b, A, Dot, Slash, Star, Colon}  NoHost = NoHost
  Lower <- Upper
  Texts <- SomeTexts
  Urls <- SomeUrls
INVARIANT Verdict
INVARIANT TextVerdict
CHECK_DEADLOCK FALSE
