CONSTANTS
  h1 = h1
  h2 = h2
  d1 = d1
  Fixes = {0, 200, 400}
  RefreshDistance = 250
  Draws = {d1}
  Places = {"Kochi"}
  Settings = {"open", "private"}
  DefaultSettings = "open"
  MaxPhotos = 1
  Handlers = {h1, h2}
SPECIFICATION Spec
SYMMETRY Symmetry
PROPERTIES GhostHolds ExploringAgrees CompleteTracks CacheTracks DeletedStaysPlaceless PrivateStaysUnseen
