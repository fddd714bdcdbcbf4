CONSTANTS
  p1 = p1
  p2 = p2
  p3 = p3
  p4 = p4
  p5 = p5
  Photos = {p1, p2, p3, p4, p5}
  h1 = h1
  h2 = h2
  Editors = {h1, h2}
  Limit = 3
SPECIFICATION PhotosSpec
SYMMETRY Symmetry
INVARIANTS OvershootBounded
PROPERTIES PrimaryKept
