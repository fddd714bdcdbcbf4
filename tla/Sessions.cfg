CONSTANTS
  t1 = t1
  t2 = t2
  t3 = t3
  Tokens = {t1, t2, t3}
  h1 = h1
  h2 = h2
  Handlers = {h1, h2}
  Passwords = {"first", "second"}
  FirstPassword = "first"
  MayFail = TRUE
SPECIFICATION Spec
SYMMETRY Symmetry
PROPERTIES EndedStaysEnded LineGrowsByOverlap SignedOutStays OldPasswordIsOut
