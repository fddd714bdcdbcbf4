CONSTANTS
  org = org
  v1 = v1
  v2 = v2
  v3 = v3
  Users = {org, v1, v2, v3}
  Organizer = org
  h1 = h1
  h2 = h2
  h3 = h3
  Handlers = {h1, h2, h3}
  Required = 2
  ModerateTo = {"PUBLISHED", "REJECTED"}
  MayFail = TRUE
SPECIFICATION Spec
SYMMETRY Symmetry
INVARIANTS CountIsBacked ScoreIsEarned
PROPERTIES StatusIsEarned IndexTracks
