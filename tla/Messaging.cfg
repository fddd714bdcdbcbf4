CONSTANTS
  Ann = Ann
  Ben = Ben
  m1 = m1
  m2 = m2
  s1 = s1
  s2 = s2
  h1 = h1
  h2 = h2
  Users = {Ann, Ben}
  Senders = {Ann}
  Readers = {Ben}
  Watchers = {Ben}
  Messages = {m1, m2}
  Sockets = {s1, s2}
  Handlers = {h1, h2}
  Kinds = {"DIRECT", "EVENT_GROUP"}
  Watched = {"EVENT_GROUP"}
  Organizer = Ann
  Permissions = {"CONNECTIONS_ONLY", "NOBODY"}
  PageSize = 1
  MaxTime = 2
SPECIFICATION Spec
SYMMETRY Symmetry
INVARIANTS PagesMissOnlyTies
PROPERTIES BarredStaysSilent   PresenceTracks
