CONSTANTS
  org = org
  u1 = u1
  u2 = u2
  u3 = u3
  Users = {org, u1, u2, u3}
  Organizer = org
  h1 = h1
  h2 = h2
  Handlers = {h1, h2}
  NoLimit = NoLimit
  Limits = {2}
  EditLimits = {}
  ModerateTo = {}
  NewGenders = {}
  MaxRequests = 5
SPECIFICATION Spec
SYMMETRY Symmetry
INVARIANTS GuestsWithinCapacity
