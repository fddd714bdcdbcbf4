CONSTANTS
  MaxCodes = 3
  h1 = h1
  h2 = h2
  Handlers = {h1, h2}
  MaxAttempts = 2
  MayFail = TRUE
SPECIFICATION Spec
SYMMETRY Symmetry
INVARIANTS AttemptsBounded LiveBounded
PROPERTIES CodeSpec
