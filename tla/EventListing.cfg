CONSTANTS
  u1 = u1
  u2 = u2
  c1 = c1
  c2 = c2
  p1 = p1
  p2 = p2
  h1 = h1
  h2 = h2
  Users = {u1, u2}
  Campaigns = {c1, c2}
  Payments = {p1, p2}
  Ends = {7, 30}
  Places = {"Kochi", "Munnar"}
  Times = {900, 1380, 1470}
  Handlers = {h1, h2}
  MaxCount = 2
  MayRefuse = TRUE
SPECIFICATION Spec
SYMMETRY Symmetry
PROPERTIES SaveCountTracks PointFollowsPlace FeaturedIsPaid
