CONSTANTS
  Ann = Ann
  Ben = Ben
  h1 = h1
  h2 = h2
  Handlers = {h1, h2}
  Askers = {Ann, Ben}
  Operations = {"love", "connect"}
  Blockers = {Ann, Ben}
  MayFail = TRUE
SPECIFICATION Spec
SYMMETRY Symmetry
INVARIANTS TiesAreWhole
PROPERTIES BlockCascades SealedStays
