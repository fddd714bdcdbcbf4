CONSTANTS
  org = org
  u1 = u1
  Users = {org, u1}
  Organizer = org
  h1 = h1
  h2 = h2
  Handlers = {h1, h2}
  NoLimit = NoLimit
  Limits = {2}
  EditLimits = {}
  ModerateTo = {}
  NewGenders = {}
  MaxRequests = 4
SPECIFICATION FairSpec
PROPERTIES RequestsAnswered
