CONSTANTS
  org = org
  u1 = u1
  u2 = u2
  Users = {org, u1, u2}
  Organizer = org
  h1 = h1
  h2 = h2
  Handlers = {h1, h2}
  NoLimit = NoLimit
  Limits = {2}
  EditLimits = {2, NoLimit}
  ModerateTo = {"PUBLISHED"}
  NewGenders = {"FEMALE"}
  MaxRequests = 4
SPECIFICATION Spec
SYMMETRY Symmetry
INVARIANTS SeatLimit ChatMatchesRoster JoinChecksStillHold
PROPERTIES CounterTracksRoster NoSeatAfterCancel GenderCapHonoured LedgerSpec
